---------------------------- MODULE Spec2Model ----------------------------
(***************************************************************************)
(* A model of MailBot: the MessageCustomizer of js/message-engine.js, the  *)
(* CustomerDataImporter (data importer) and the SimpleMailBot controller   *)
(* of simple_app.js.                                                       *)
(*                                                                         *)
(* JavaScript strings are modelled as sequences of one-character strings,  *)
(* so that the regular expressions of the source are computed character by *)
(* character.  JavaScript values are tagged records: Null, Str(s), Num(n). *)
(* A JavaScript object is a sequence of [k, v] entries with distinct keys, *)
(* in insertion order (the order Object.keys and Array.find follow).       *)
(***************************************************************************)
EXTENDS Integers, Sequences, FiniteSets, TLC

VARIABLES
    messageEngine,  \* MessageCustomizer: [template, fieldMapping]
    dataImporter,   \* CustomerDataImporter: [rawData, processedData, columnHeaders]
    app,            \* SimpleMailBot: its fields and the elements of the page it sets
    runs,           \* the runs of startProcessing, each at one of its awaits or done
    call            \* the last call made on a module and what it returned

vars == <<messageEngine, dataImporter, app, runs, call>>

-----------------------------------------------------------------------------
(* Constants of the program *)

MinPhoneDigits == 10        \* isValidPhone
MaxPhoneDigits == 15
ShortMessageLength == 50    \* validateCustomization
LongMessageLength == 5000
MinRowValues == 2           \* isValidRow
MinHeaderCells == 3         \* convertExcelToJSON
HeaderScanRows == 25

-----------------------------------------------------------------------------
(* JavaScript values *)

Null == [t |-> "null"]
Str(s) == [t |-> "str", s |-> s]
Num(n) == [t |-> "num", n |-> n]

IsStr(v) == v.t = "str"

-----------------------------------------------------------------------------
(* Strings: String.prototype helpers, computed on sequences of characters *)

UpperCase == <<"A","B","C","D","E","F","G","H","I","J","K","L","M",
               "N","O","P","Q","R","S","T","U","V","W","X","Y","Z">>
LowerCase == <<"a","b","c","d","e","f","g","h","i","j","k","l","m",
               "n","o","p","q","r","s","t","u","v","w","x","y","z">>
Digits == <<"0","1","2","3","4","5","6","7","8","9">>

Range(f) == { f[i] : i \in DOMAIN f }

IsSpace(c) == c \in {" ", "\t", "\n", "\r"}
IsDigit(c) == c \in Range(Digits)
IsWordChar(c) == c \in Range(UpperCase) \cup Range(LowerCase) \cup Range(Digits) \cup {"_"}

LowerChar(c) ==
    IF c \in Range(UpperCase)
    THEN LowerCase[CHOOSE i \in DOMAIN UpperCase : UpperCase[i] = c]
    ELSE c

UpperChar(c) ==
    IF c \in Range(LowerCase)
    THEN UpperCase[CHOOSE i \in DOMAIN LowerCase : LowerCase[i] = c]
    ELSE c

toLowerCase(s) == [i \in 1..Len(s) |-> LowerChar(s[i])]

\* s.slice(from) with 1-based from
Slice(s, from) == SubSeq(s, from, Len(s))

\* the text pat starts at index i of s
StartsAt(s, pat, i) ==
    /\ i >= 1
    /\ i + Len(pat) - 1 <= Len(s)
    /\ \A k \in 1..Len(pat) : s[i + k - 1] = pat[k]

includes(s, pat) == \E i \in 1..(Len(s) - Len(pat) + 1) : StartsAt(s, pat, i)

RECURSIVE TrimStart(_)
TrimStart(s) ==
    IF s # <<>> /\ IsSpace(Head(s)) THEN TrimStart(Tail(s)) ELSE s

RECURSIVE TrimEnd(_)
TrimEnd(s) ==
    IF s # <<>> /\ IsSpace(s[Len(s)]) THEN TrimEnd(SubSeq(s, 1, Len(s) - 1)) ELSE s

trim(s) == TrimEnd(TrimStart(s))

\* s.replace(/\s+/g, '')
StripSpaces(s) == SelectSeq(s, LAMBDA c : ~IsSpace(c))

\* phone.replace(/\D/g, '')
DigitsOf(s) == SelectSeq(s, IsDigit)

RECURSIVE NatToString(_)
NatToString(n) ==
    IF n < 10 THEN <<Digits[n + 1]>>
    ELSE NatToString(n \div 10) \o <<Digits[(n % 10) + 1]>>

\* String(value) for the values of the model
String(v) ==
    CASE v.t = "str" -> v.s
      [] v.t = "num" -> IF v.n < 0 THEN <<"-">> \o NatToString(-v.n) ELSE NatToString(v.n)
      [] OTHER -> <<"n","u","l","l">>

\* JavaScript truthiness: null, '' and 0 are falsy
Truthy(v) ==
    CASE v.t = "null" -> FALSE
      [] v.t = "str" -> v.s # <<>>
      [] v.t = "num" -> v.n # 0
      [] OTHER -> TRUE

-----------------------------------------------------------------------------
(* Objects: sequences of [k, v] entries *)

Keys(obj) == [i \in 1..Len(obj) |-> obj[i].k]
Values(obj) == [i \in 1..Len(obj) |-> obj[i].v]
HasKey(obj, key) == \E i \in 1..Len(obj) : obj[i].k = key
Get(obj, key) == obj[CHOOSE i \in 1..Len(obj) : obj[i].k = key].v

\* the index of the first element satisfying Test, or 0 (Array.prototype.find)
FindIndex(seq, Test(_)) ==
    IF \E i \in 1..Len(seq) : Test(seq[i])
    THEN CHOOSE i \in 1..Len(seq) : Test(seq[i]) /\ \A j \in 1..(i - 1) : ~Test(seq[j])
    ELSE 0


Max(S) == CHOOSE x \in S : \A y \in S : y <= x
Min(S) == CHOOSE x \in S : \A y \in S : x <= y

\* [...seq]: the elements as they are, repeated ones included
KeepRepeated(seq) == seq

\* [...new Set(seq)]: the distinct elements in order of first occurrence
RECURSIVE Unique(_)
Unique(seq) ==
    IF seq = <<>> THEN <<>>
    ELSE LET rest == Unique(SubSeq(seq, 1, Len(seq) - 1))
             last == seq[Len(seq)]
         IN IF last \in Range(rest) THEN rest ELSE Append(rest, last)

-----------------------------------------------------------------------------
(* The regular expressions of MessageCustomizer *)

\* the text that opens the merge-field pattern / \[ ... and the sentinel patterns
MergeFieldOpen == <<" ", "[">>
MissingOpen == <<" ", "[", "M", "I", "S", "S", "I", "N", "G", ":", " ">>
UnmappedOpen == <<" ", "[", "U", "N", "M", "A", "P", "P", "E", "D", ":", " ">>
\* ... and the text \]  (a bracket, then a space) that closes each of them
FieldClose == <<"]", " ">>

\* A match of  open ([^\\]+) \]<space>  that starts at index i of s: the index of
\* its last character, or 0 when there is none.  The group is greedy: it runs
\* over every character but a backslash, then backtracks to the last close.
GroupMatchEnd(s, open, i) ==
    LET first == i + Len(open)
        ends == { j \in (first + 1)..(Len(s) - 1) :
                    /\ StartsAt(s, FieldClose, j)
                    /\ \A k \in first..(j - 1) : s[k] # "\\" }
    IN IF StartsAt(s, open, i) /\ ends # {} THEN Max(ends) + 1 ELSE 0

\* regex.exec in a loop / String.prototype.match with the g flag: the matches
\* from left to right, each search resuming after the previous match
RECURSIVE MatchAll(_, _, _)
MatchAll(s, open, from) ==
    LET starts == { i \in from..Len(s) : GroupMatchEnd(s, open, i) # 0 }
    IN IF starts = {} THEN <<>>
       ELSE LET i == Min(starts)
                e == GroupMatchEnd(s, open, i)
            IN <<SubSeq(s, i, e)>> \o MatchAll(s, open, e + 1)

\* mergeField.replace(/^\ \[|]\ $/g, '')
StripFieldBrackets(mergeField) ==
    LET a == IF StartsAt(mergeField, MergeFieldOpen, 1) THEN Slice(mergeField, 3)
             ELSE mergeField
    IN IF Len(a) >= 2 /\ StartsAt(a, FieldClose, Len(a) - 1)
       THEN SubSeq(a, 1, Len(a) - 2) ELSE a

\* the characters escapeRegex puts a backslash before: . * + ? ^ $ { } ( ) | [ \
RECURSIVE escapeRegex(_)
escapeRegex(s) ==
    IF s = <<>> THEN <<>>
    ELSE (IF Head(s) \in {".", "*", "+", "?", "^", "$", "{", "}", "(", ")", "|", "[", "\\"}
          THEN <<"\\", Head(s)>> ELSE <<Head(s)>>)
         \o escapeRegex(Tail(s))

\* The text a pattern made of escaped and plain characters matches.  Every
\* character that is special in a pattern is escaped, but for the closing
\* bracket, which alone (outside a class) stands for itself.
RECURSIVE PatternText(_)
PatternText(p) ==
    IF p = <<>> THEN <<>>
    ELSE IF Head(p) = "\\" /\ Len(p) >= 2 THEN <<p[2]>> \o PatternText(Slice(p, 3))
    ELSE <<Head(p)>> \o PatternText(Tail(p))

\* The replacement text of String.prototype.replace for the match s[a..b]:
\* $$ is a dollar, $& the match, $` the text before it, $' the text after it
\* (the pattern has no group, so $1 stays as it is)
RECURSIVE GetSubstitution(_, _, _, _)
GetSubstitution(rep, s, a, b) ==
    IF rep = <<>> THEN <<>>
    ELSE IF Head(rep) = "$" /\ Len(rep) >= 2 /\ rep[2] \in {"$", "&", "`", "'"}
    THEN (CASE rep[2] = "$" -> <<"$">>
            [] rep[2] = "&" -> SubSeq(s, a, b)
            [] rep[2] = "`" -> SubSeq(s, 1, a - 1)
            [] rep[2] = "'" -> SubSeq(s, b + 1, Len(s)))
         \o GetSubstitution(Slice(rep, 3), s, a, b)
    ELSE <<Head(rep)>> \o GetSubstitution(Tail(rep), s, a, b)

\* s.replace(new RegExp(pattern, 'g'), rep) from index i on
RECURSIVE ReplaceFrom(_, _, _, _)
ReplaceFrom(s, text, rep, i) ==
    IF i > Len(s) THEN <<>>
    ELSE IF text # <<>> /\ StartsAt(s, text, i)
    THEN GetSubstitution(rep, s, i, i + Len(text) - 1)
         \o ReplaceFrom(s, text, rep, i + Len(text))
    ELSE <<s[i]>> \o ReplaceFrom(s, text, rep, i + 1)

ReplaceAll(s, pattern, rep) == ReplaceFrom(s, PatternText(pattern), rep, 1)

-----------------------------------------------------------------------------
(* MessageCustomizer: looking a value up and formatting it *)

getCustomerValue(customerData, dataColumn) ==
    LET keys == Keys(customerData)
        SameNoCase(key) == toLowerCase(key) = toLowerCase(dataColumn)
        Fuzzy(key) ==
            LET normalizedKey == StripSpaces(toLowerCase(key))
                normalizedColumn == StripSpaces(toLowerCase(dataColumn))
            IN includes(normalizedKey, normalizedColumn)
               \/ includes(normalizedColumn, normalizedKey)
        matchingKey == FindIndex(keys, SameNoCase)
        fuzzyKey == FindIndex(keys, Fuzzy)
    IN IF dataColumn = <<>> THEN Null
       ELSE IF HasKey(customerData, dataColumn) THEN Get(customerData, dataColumn)
       ELSE IF matchingKey # 0 /\ keys[matchingKey] # <<>> THEN customerData[matchingKey].v
       ELSE IF fuzzyKey # 0 /\ keys[fuzzyKey] # <<>> THEN customerData[fuzzyKey].v
       ELSE Null

\* the keyword tables of isDateField, isNameField, isEmailField, isPhoneField;
\* displayMappingModal looks for four of the keywords too
EMAIL == <<"e", "m", "a", "i", "l">>
PHONE == <<"p", "h", "o", "n", "e">>
MOBILE == <<"m", "o", "b", "i", "l", "e">>
CELL == <<"c", "e", "l", "l">>

dateKeywords ==
    {<<"d", "a", "t", "e">>,
     <<"e", "x", "p", "i", "r">>,
     <<"d", "u", "e">>,
     <<"r", "e", "n", "e", "w">>,
     <<"b", "i", "r", "t", "h">>,
     <<"c", "r", "e", "a", "t", "e", "d">>,
     <<"u", "p", "d", "a", "t", "e", "d">>}
nameKeywords ==
    {<<"n", "a", "m", "e">>,
     <<"f", "i", "r", "s", "t">>,
     <<"l", "a", "s", "t">>,
     <<"f", "u", "l", "l">>,
     <<"c", "u", "s", "t", "o", "m", "e", "r">>,
     <<"c", "l", "i", "e", "n", "t">>}
emailKeywords == {EMAIL, <<"m", "a", "i", "l">>, <<"@">>}
phoneKeywords == {PHONE, <<"t", "e", "l">>, MOBILE, CELL, <<"c", "o", "n", "t", "a", "c", "t">>}

\* `${fieldName} ${dataColumn}`.toLowerCase() holds one of the keywords
HasKeyword(keywords, fieldName, dataColumn) ==
    LET combined == toLowerCase(fieldName \o <<" ">> \o dataColumn)
    IN \E keyword \in keywords : includes(combined, keyword)

isDateField(fieldName, dataColumn) == HasKeyword(dateKeywords, fieldName, dataColumn)
isNameField(fieldName, dataColumn) == HasKeyword(nameKeywords, fieldName, dataColumn)
isEmailField(fieldName, dataColumn) == HasKeyword(emailKeywords, fieldName, dataColumn)
isPhoneField(fieldName, dataColumn) == HasKeyword(phoneKeywords, fieldName, dataColumn)

NoDate == [y |-> 0, m |-> 0, d |-> 0]

MonthNames ==
    <<<<"J", "a", "n", "u", "a", "r", "y">>,
     <<"F", "e", "b", "r", "u", "a", "r", "y">>,
     <<"M", "a", "r", "c", "h">>,
     <<"A", "p", "r", "i", "l">>,
     <<"M", "a", "y">>,
     <<"J", "u", "n", "e">>,
     <<"J", "u", "l", "y">>,
     <<"A", "u", "g", "u", "s", "t">>,
     <<"S", "e", "p", "t", "e", "m", "b", "e", "r">>,
     <<"O", "c", "t", "o", "b", "e", "r">>,
     <<"N", "o", "v", "e", "m", "b", "e", "r">>,
     <<"D", "e", "c", "e", "m", "b", "e", "r">>>>

DigitValue(c) == (CHOOSE i \in DOMAIN Digits : Digits[i] = c) - 1

RECURSIVE StringToNat(_)
StringToNat(s) ==
    IF s = <<>> THEN 0
    ELSE 10 * StringToNat(SubSeq(s, 1, Len(s) - 1)) + DigitValue(s[Len(s)])

IsLeapYear(y) == (y % 4 = 0 /\ y % 100 # 0) \/ y % 400 = 0

DaysInMonth(y, m) ==
    IF m = 2 THEN (IF IsLeapYear(y) THEN 29 ELSE 28)
    ELSE IF m \in {4, 6, 9, 11} THEN 30 ELSE 31

\* The environment of a call: how Date.parse of the browser reads a text
\* that is no ISO date ("legacy": a number is a year; "strict": Invalid Date),
\* and whether local time is behind UTC ("west") or not ("east").
Environments == [dateParser : {"legacy", "strict"}, timeZone : {"west", "east"}]

\* the day before a date
PreviousDay(date) ==
    IF date.d > 1 THEN [date EXCEPT !.d = date.d - 1]
    ELSE IF date.m > 1
    THEN [y |-> date.y, m |-> date.m - 1, d |-> DaysInMonth(date.y, date.m - 1)]
    ELSE [y |-> date.y - 1, m |-> 12, d |-> 31]

\* the local calendar date of midnight UTC of a date
LocalDate(env, utcDate) ==
    IF env.timeZone = "west" THEN PreviousDay(utcDate) ELSE utcDate

\* new Date(text), as the local calendar date toLocaleDateString shows.  A
\* text of the form YYYY-MM-DD is midnight UTC of that day.  A text of three
\* to six digits is no ISO date: the legacy parser reads it as a year (local
\* January 1), a strict parser gives Invalid Date; longer numbers are no date.  The values of the model
\* take no other date form.
parseDateIn(env, dateString) ==
    LET s == dateString
        shaped == /\ Len(s) = 10
                  /\ s[5] = "-" /\ s[8] = "-"
                  /\ \A i \in {1, 2, 3, 4, 6, 7, 9, 10} : IsDigit(s[i])
        y == StringToNat(SubSeq(s, 1, 4))
        m == StringToNat(SubSeq(s, 6, 7))
        d == StringToNat(SubSeq(s, 9, 10))
        \* a year up to 275760, the last year of a Date
        number == /\ Len(s) >= 3 /\ Len(s) <= 6
                  /\ \A i \in 1..Len(s) : IsDigit(s[i])
                  /\ StringToNat(s) <= 275760
    IN IF shaped /\ m \in 1..12 /\ d >= 1 /\ d <= DaysInMonth(y, m)
       THEN LocalDate(env, [y |-> y, m |-> m, d |-> d])
       ELSE IF number /\ env.dateParser = "legacy"
       THEN [y |-> StringToNat(s), m |-> 1, d |-> 1]
       ELSE NoDate

\* parseDate in the environment of the call
parseDate(dateString) == parseDateIn(call.env, dateString)

\* date.toLocaleDateString('en-US', {year: 'numeric', month: 'long', day: 'numeric'})
formatDate(date) ==
    IF date = NoDate THEN <<>>
    ELSE MonthNames[date.m] \o <<" ">> \o NatToString(date.d) \o <<",", " ">>
         \o NatToString(date.y)

\* s.replace(/\b<particle>(\w)/g, '<particle>$1') from index i on: each match
\* is replaced by the particle and the letter that follows it
RECURSIVE ReplaceParticle(_, _, _)
ReplaceParticle(s, particle, i) ==
    LET n == Len(particle)
        boundary == i = 1 \/ ~IsWordChar(s[i - 1])
        matches == /\ boundary
                   /\ StartsAt(s, particle, i)
                   /\ i + n <= Len(s)
                   /\ IsWordChar(s[i + n])
    IN IF i > Len(s) THEN <<>>
       ELSE IF matches THEN particle \o <<s[i + n]>> \o ReplaceParticle(s, particle, i + n + 1)
       ELSE <<s[i]>> \o ReplaceParticle(s, particle, i + 1)

formatName(name) ==
    LET lower == toLowerCase(name)
        \* split(' '), upper-case each word's first character, join(' ')
        words == [i \in 1..Len(lower) |->
                    IF i = 1 \/ lower[i - 1] = " " THEN UpperChar(lower[i]) ELSE lower[i]]
    IN IF name = <<>> THEN name
       ELSE ReplaceParticle(ReplaceParticle(words, <<"M", "c">>, 1), <<"O", "'">>, 1)

\* formatPhone that formats any 11 digits
formatPhoneAnyEleven(phone) ==
    LET digits == DigitsOf(phone)
    IN IF phone = <<>> THEN phone
       ELSE IF Len(digits) = 10
       THEN <<"(">> \o SubSeq(digits, 1, 3) \o <<")", " ">> \o SubSeq(digits, 4, 6)
            \o <<"-">> \o SubSeq(digits, 7, 10)
       ELSE IF Len(digits) = 11
       THEN <<"+", "1", " ", "(">> \o SubSeq(digits, 2, 4) \o <<")", " ">>
            \o SubSeq(digits, 5, 7) \o <<"-">> \o SubSeq(digits, 8, 11)
       ELSE phone

formatPhone(phone) ==
    LET digits == DigitsOf(phone)
    IN IF phone = <<>> THEN phone
       ELSE IF Len(digits) = 10
       THEN <<"(">> \o SubSeq(digits, 1, 3) \o <<")", " ">> \o SubSeq(digits, 4, 6)
            \o <<"-">> \o SubSeq(digits, 7, 10)
       ELSE IF Len(digits) = 11 /\ digits[1] = "1"
       THEN <<"+", "1", " ", "(">> \o SubSeq(digits, 2, 4) \o <<")", " ">>
            \o SubSeq(digits, 5, 7) \o <<"-">> \o SubSeq(digits, 8, 11)
       ELSE phone

MissingSentinel(fieldName) == <<"[", "M", "I", "S", "S", "I", "N", "G", ":", " ">> \o fieldName \o <<"]">>
EmptySentinel(fieldName) == <<"[", "E", "M", "P", "T", "Y", ":", " ">> \o fieldName \o <<"]">>
UnmappedSentinel(fieldName) == <<"[", "U", "N", "M", "A", "P", "P", "E", "D", ":", " ">> \o fieldName \o <<"]">>

formatValue(value, fieldName, dataColumn) ==
    LET text == trim(String(value))
        dated == IF isDateField(fieldName, dataColumn) /\ parseDate(text) # NoDate
                 THEN formatDate(parseDate(text)) ELSE text
        named == IF isNameField(fieldName, dataColumn) THEN formatName(dated) ELSE dated
        mailed == IF isEmailField(fieldName, dataColumn) THEN toLowerCase(named) ELSE named
        phoned == IF isPhoneField(fieldName, dataColumn) THEN formatPhone(mailed) ELSE mailed
    IN IF value = Null THEN MissingSentinel(fieldName)
       ELSE IF IsStr(value) /\ trim(value.s) = <<>> THEN EmptySentinel(fieldName)
       ELSE phoned

-----------------------------------------------------------------------------
(* MessageCustomizer: replaceFields, validateCustomization, customizeMessage *)

\* fieldMapping[mergeField]: the column, or the empty text when there is no
\* entry (undefined and '' are both falsy in `if (!dataColumn)`)
MappedColumn(fieldMapping, mergeField) ==
    IF HasKey(fieldMapping, mergeField) THEN Get(fieldMapping, mergeField) ELSE <<>>

\* the loop `for (const mergeField of uniqueFields)` from the k-th field on
RECURSIVE ReplaceLoop(_, _, _, _, _, _)
ReplaceLoop(uniqueFields, k, customerData, fieldMapping, processedMessage, replacements) ==
    IF k > Len(uniqueFields)
    THEN [success |-> TRUE, message |-> processedMessage, replacements |-> replacements]
    ELSE
        LET mergeField == uniqueFields[k]
            fieldName == StripFieldBrackets(mergeField)
            dataColumn == MappedColumn(fieldMapping, mergeField)
            customerValue == getCustomerValue(customerData, dataColumn)
            formattedValue == formatValue(customerValue, fieldName, dataColumn)
        IN IF dataColumn = <<>>
           THEN ReplaceLoop(uniqueFields, k + 1, customerData, fieldMapping,
                    ReplaceAll(processedMessage, escapeRegex(mergeField),
                               UnmappedSentinel(fieldName)),
                    Append(replacements,
                           [field |-> mergeField, dataColumn |-> <<>>,
                            replacedValue |-> UnmappedSentinel(fieldName),
                            status |-> "unmapped"]))
           ELSE ReplaceLoop(uniqueFields, k + 1, customerData, fieldMapping,
                    ReplaceAll(processedMessage, escapeRegex(mergeField), formattedValue),
                    Append(replacements,
                           [field |-> mergeField, dataColumn |-> dataColumn,
                            replacedValue |-> formattedValue,
                            status |-> IF Truthy(customerValue) THEN "replaced"
                                       ELSE "missing"]))

replaceFields(template, customerData, fieldMapping) ==
    LET fieldsToReplace == MatchAll(template, MergeFieldOpen, 1)
        uniqueFields == Unique(fieldsToReplace)
    IN ReplaceLoop(uniqueFields, 1, customerData, fieldMapping, template, <<>>)

\* /^[^\n\t\f\r ]+@[^\n\t\f\r ]+\.[^\n\t\f\r ]+$/.test(email.trim())
isValidEmail(email) ==
    /\ IsStr(email)
    /\ email.s # <<>>
    /\ LET e == trim(email.s)
       IN /\ \A i \in 1..Len(e) : ~IsSpace(e[i])
          /\ \E p, q \in 1..Len(e) :
                /\ 1 < p /\ p + 1 < q /\ q < Len(e)
                /\ e[p] = "@" /\ e[q] = "."

isValidPhone(phone) ==
    /\ IsStr(phone)
    /\ phone.s # <<>>
    /\ Len(DigitsOf(phone.s)) >= MinPhoneDigits
    /\ Len(DigitsOf(phone.s)) <= MaxPhoneDigits

\* validateCustomization reads this.fieldMapping, passed here as fieldMapping
validateCustomization(message, customerData, fieldMapping) ==
    LET unreplacedFields == MatchAll(message, MergeFieldOpen, 1)
        missingFields == MatchAll(message, MissingOpen, 1)
        unmappedFields == MatchAll(message, UnmappedOpen, 1)
        IsEmailEntry(entry) == isEmailField(entry.k, entry.v)
        IsPhoneEntry(entry) == isPhoneField(entry.k, entry.v)
        emailColumn == FindIndex(fieldMapping, IsEmailEntry)
        phoneColumn == FindIndex(fieldMapping, IsPhoneEntry)
        email == getCustomerValue(customerData, fieldMapping[emailColumn].v)
        phone == getCustomerValue(customerData, fieldMapping[phoneColumn].v)
        warnings ==
            (IF Len(unmappedFields) > 0
             THEN <<[warning |-> "unmapped", count |-> Len(unmappedFields)]>> ELSE <<>>)
            \o (IF Len(missingFields) > 0
                THEN <<[warning |-> "missing", count |-> Len(missingFields)]>> ELSE <<>>)
            \o (IF Len(message) < ShortMessageLength
                THEN <<[warning |-> "short", count |-> Len(message)]>> ELSE <<>>)
            \o (IF Len(message) > LongMessageLength
                THEN <<[warning |-> "long", count |-> Len(message)]>> ELSE <<>>)
            \o (IF emailColumn # 0 /\ Truthy(email) /\ ~isValidEmail(email)
                THEN <<[warning |-> "email", count |-> 1]>> ELSE <<>>)
            \o (IF phoneColumn # 0 /\ Truthy(phone) /\ ~isValidPhone(phone)
                THEN <<[warning |-> "phone", count |-> 1]>> ELSE <<>>)
    IN [isValid |-> ~(Len(unmappedFields) > 0 \/ Len(missingFields) > 0),
        warnings |-> warnings,
        stats |-> [unreplacedFields |-> Len(unreplacedFields),
                   missingFields |-> Len(missingFields),
                   unmappedFields |-> Len(unmappedFields)]]

\* the result of customizeMessage; template is a text, customerData and
\* fieldMapping are Null or [t |-> "obj", e |-> entries]
customizeMessage(template, customerData, fieldMapping) ==
    LET failure(error) == [success |-> FALSE, error |-> error, message |-> <<>>,
                           replacements |-> <<>>, validation |-> Null]
        result == replaceFields(template, customerData.e, fieldMapping.e)
        validation == validateCustomization(result.message, customerData.e, fieldMapping.e)
    IN IF template = <<>> THEN failure("No template provided")
       ELSE IF customerData = Null THEN failure("No customer data provided")
       ELSE IF fieldMapping = Null THEN failure("No field mapping provided")
       ELSE [success |-> TRUE, error |-> "", message |-> result.message,
             replacements |-> result.replacements, validation |-> validation]

Obj(entries) == [t |-> "obj", e |-> entries]

-----------------------------------------------------------------------------
(* SimpleMailBot: placeholder extraction of startProcessing *)

IsBracket(c) == c \in {"[", "]"}

\* the index of the last character of the longest run of characters that
\* satisfy Test and start at index i (i - 1 when s[i] does not satisfy it)
RECURSIVE RunEnd(_, _, _)
RunEnd(s, Test(_), i) ==
    IF i <= Len(s) /\ Test(s[i]) THEN RunEnd(s, Test, i + 1) ELSE i - 1

\* html.replace(/<[^>]+>/g, ' ') from index i on
RECURSIVE StripTagsFrom(_, _)
StripTagsFrom(s, i) ==
    LET closes == { j \in (i + 2)..Len(s) : s[j] = ">" }
    IN IF i > Len(s) THEN <<>>
       ELSE IF s[i] = "<" /\ i + 1 <= Len(s) /\ s[i + 1] # ">" /\ closes # {}
       THEN <<" ">> \o StripTagsFrom(s, Min(closes) + 1)
       ELSE <<s[i]>> \o StripTagsFrom(s, i + 1)

StripTags(html) == StripTagsFrom(html, 1)

\* A match of /[\[\]]+([^[\]]+)[\[\]]+/ that starts at index i: the index of
\* its last character, or 0.  Brackets, then other characters, then brackets,
\* each run as long as it can be.
TokenMatchEnd(s, i) ==
    LET NotBracket(c) == ~IsBracket(c)
        open == RunEnd(s, IsBracket, i)
        name == RunEnd(s, NotBracket, open + 1)
        close == RunEnd(s, IsBracket, name + 1)
    IN IF i <= Len(s) /\ open >= i /\ name > open /\ close > name THEN close ELSE 0

\* text.match(/[\[\]]+([^[\]]+)[\[\]]+/g) || []
RECURSIVE MatchTokens(_, _)
MatchTokens(s, from) ==
    LET starts == { i \in from..Len(s) : TokenMatchEnd(s, i) # 0 }
    IN IF starts = {} THEN <<>>
       ELSE LET i == Min(starts)
                e == TokenMatchEnd(s, i)
            IN <<SubSeq(s, i, e)>> \o MatchTokens(s, e + 1)

\* the merge fields startProcessing extracts from a converted template
ExtractMergeFields(html) == Unique(MatchTokens(StripTags(html), 1))

-----------------------------------------------------------------------------
(* CustomerDataImporter: cleaning headers, values and rows *)

\* s.replace(/\s+/g, ' ') from index i on
RECURSIVE CollapseSpaces(_, _)
CollapseSpaces(s, i) ==
    IF i > Len(s) THEN <<>>
    ELSE IF IsSpace(s[i]) THEN <<" ">> \o CollapseSpaces(s, RunEnd(s, IsSpace, i) + 1)
    ELSE <<s[i]>> \o CollapseSpaces(s, i + 1)

\* the characters /[^\w\s-]/ keeps
IsHeaderChar(c) == IsWordChar(c) \/ IsSpace(c) \/ c = "-"

UNKNOWN == <<"U", "n", "k", "n", "o", "w", "n">>

cleanHeader(header) ==
    IF ~Truthy(header) \/ ~IsStr(header) THEN UNKNOWN
    ELSE trim(SelectSeq(CollapseSpaces(trim(header.s), 1), IsHeaderChar))

\* the values are strings and numbers: XLSX.read is called without cellDates,
\* so no cell is a Date
cleanValue(value) ==
    IF value = Null THEN Str(<<>>)
    ELSE IF IsStr(value) THEN Str(trim(value.s))
    ELSE value

\* value !== null && value !== undefined && String(value).trim() !== ''
IsNonEmptyValue(value) == value # Null /\ trim(String(value)) # <<>>

isValidRow(row) ==
    Len(SelectSeq(Values(row), IsNonEmptyValue)) >= MinRowValues

\* obj[key] = value: a new key is added last, a key the object has keeps its place
SetKey(obj, key, value) ==
    IF HasKey(obj, key)
    THEN [i \in 1..Len(obj) |-> IF obj[i].k = key THEN [k |-> key, v |-> value] ELSE obj[i]]
    ELSE Append(obj, [k |-> key, v |-> value])

\* row[index] of a row array, undefined (Null) past its end; index from 0
Cell(row, index) == IF index + 1 <= Len(row) THEN row[index + 1] ELSE Null

-----------------------------------------------------------------------------
(* CustomerDataImporter: convertExcelToJSON and processExcelData *)

\* row.filter(cell => cell && String(cell).trim()).length
nonEmptyCount(row) ==
    Len(SelectSeq(row, LAMBDA cell : Truthy(cell) /\ trim(String(cell)) # <<>>))

\* the loop that looks for the header row; rows are numbered from 0, and -1
\* says that none of the first HeaderScanRows rows has MinHeaderCells cells
FoundHeaderRow(jsonData) ==
    LET last == (IF Len(jsonData) < HeaderScanRows THEN Len(jsonData) ELSE HeaderScanRows) - 1
        found == { i \in 0..last : nonEmptyCount(jsonData[i + 1]) >= MinHeaderCells }
    IN IF found = {} THEN -1 ELSE Min(found)

headerRowIndex(jsonData) ==
    IF FoundHeaderRow(jsonData) = -1 THEN 0 ELSE FoundHeaderRow(jsonData)

\* const finalHeader = header || `Unknown_${index}` for the header at index
finalHeader(headers, index) ==
    IF headers[index + 1] # <<>> THEN headers[index + 1]
    ELSE UNKNOWN \o <<"_">> \o NatToString(index)

\* the headers.forEach loop that builds rowObj, from the header at index on
RECURSIVE RowObject(_, _, _, _)
RowObject(headers, row, index, rowObj) ==
    IF index >= Len(headers) THEN rowObj
    ELSE RowObject(headers, row, index + 1,
                   SetKey(rowObj, finalHeader(headers, index), cleanValue(Cell(row, index))))

\* jsonData is what sheet_to_json returns: the rows of the sheet as arrays
convertExcelToJSON(jsonData) ==
    LET headerRow == jsonData[headerRowIndex(jsonData) + 1]
        headers == [i \in 1..Len(headerRow) |-> cleanHeader(headerRow[i])]
        dataRows == Slice(jsonData, headerRowIndex(jsonData) + 2)
        rowObjects == [i \in 1..Len(dataRows) |-> RowObject(headers, dataRows[i], 0, <<>>)]
    IN IF Len(jsonData) = 0 THEN <<>> ELSE SelectSeq(rowObjects, isValidRow)

\* An import result.  A text of the importer is the sequence of the parts it
\* is concatenated from, and a result without an error property has error <<>>.
ImportFailure(error) == [success |-> FALSE, error |-> error, data |-> <<>>, headers |-> <<>>]
ImportSuccess(validData) ==
    [success |-> TRUE, error |-> <<>>, data |-> validData, headers |-> Keys(validData[1])]

processExcelData(jsonData) ==
    LET validData == SelectSeq(jsonData, isValidRow)
    IN IF Len(validData) = 0 THEN ImportFailure(<<"No valid data rows found in Excel file.">>)
       ELSE ImportSuccess(validData)

\* importExcel once the workbook is read: the sheets are the rows of each
\* worksheet, in the order of workbook.SheetNames
bestSheet(workbook) ==
    LET most == Max({ Len(workbook[i]) : i \in 1..Len(workbook) })
    IN Min({ i \in 1..Len(workbook) : Len(workbook[i]) = most })

processWorkbook(workbook) ==
    LET jsonData == convertExcelToJSON(workbook[bestSheet(workbook)])
    IN IF Len(workbook) = 0 THEN ImportFailure(<<"Excel file contains no worksheets.">>)
       ELSE IF Len(jsonData) = 0 THEN ImportFailure(<<"No data found in Excel file.">>)
       ELSE processExcelData(jsonData)

-----------------------------------------------------------------------------
(* CustomerDataImporter: processCSVResults and getErrorMessage *)

\* Papa.parse under csvConfig (header: true, transformHeader: cleanHeader,
\* dynamicTyping: true): the first row of the table gives the keys and every
\* other row becomes an object; the cells are typed already, an empty field
\* being null
PapaParse(table) ==
    LET headers == [i \in 1..Len(table[1]) |-> cleanHeader(table[1][i])]
        Row(row) == [i \in 1..Len(headers) |-> [k |-> headers[i], v |-> Cell(row, i - 1)]]
    IN [data |-> [i \in 1..(Len(table) - 1) |-> Row(table[i + 1])]]

processCSVResults(results) ==
    LET validData == SelectSeq(results.data, isValidRow)
    IN IF Len(results.data) = 0 THEN ImportFailure(<<"No data found in CSV file.">>)
       ELSE IF Len(validData) = 0 THEN ImportFailure(<<"No valid data rows found in CSV file.">>)
       ELSE ImportSuccess(validData)

\* An error is its name, its message and the texts of getErrorMessage that the
\* message includes.
Error(message, mentions) == [name |-> "Error", message |-> message, mentions |-> mentions]

\* throw new Error(...) of importExcel when both attempts have failed
CouldNotParse ==
    Error(<<"The file could not be parsed. It might be corrupt or in an unsupported format.">>,
          {"format"})

getErrorMessage(error) ==
    IF error = Null THEN <<"Unknown error occurred">>
    ELSE IF "Failed to read file" \in error.mentions
    THEN <<"Unable to read the file. The file may be corrupted or in use.">>
    ELSE IF "ZIP" \in error.mentions \/ "format" \in error.mentions
    THEN <<"Invalid Excel file format. Please ensure the file is a valid .xlsx file.">>
    ELSE IF "delimiter" \in error.mentions
    THEN <<"Unable to detect CSV format. Please ensure the file uses standard delimiters (comma, tab, semicolon).">>
    ELSE IF error.name = "RangeError" \/ "memory" \in error.mentions
    THEN <<"File is too large to process. Please try a smaller file or split the data.">>
    ELSE IF "NetworkError" \in error.mentions
    THEN <<"Network error while loading data processing libraries. Please check your internet connection.">>
    ELSE <<"Data import failed: ">> \o error.message

\* an importExcel that falls back once more after the second attempt
afterFailedAttemptAgain(attempts) ==
    IF Len(attempts) <= 2 THEN "readAsBinaryString" ELSE "thrown"

\* what importExcel does when an attempt to read and parse the file has
\* failed: the fallback after the first attempt, the error after the second
afterFailedAttempt(attempts) ==
    IF Len(attempts) = 1 THEN "readAsBinaryString" ELSE "thrown"

-----------------------------------------------------------------------------
(* The inputs of customizeMessage *)

MaxTemplateLen == 7
Templates == UNION { [1..n -> {" ", "[", "]", "a"}] : n \in 0..MaxTemplateLen }

ColumnC == <<"c">>
CellValues == {Null, Str(<<>>), Str(<<" ">>), Str(<<"a">>), Num(0)}
Records == {Null, Obj(<<>>)} \cup { Obj(<<[k |-> ColumnC, v |-> v]>>) : v \in CellValues }

\* the merge fields a mapping of the template can name: those replaceFields
\* finds and those startProcessing extracts
MergeKeys(template) ==
    Unique(MatchAll(template, MergeFieldOpen, 1) \o ExtractMergeFields(template))

\* every mapping of the keys to ColumnC, to '' or to no entry at all
Mappings(template) ==
    LET keys == MergeKeys(template)
        choices == [1..Len(keys) -> {"column", "empty", "absent"}]
        Entries(choice) ==
            LET kept == SelectSeq([i \in 1..Len(keys) |-> i],
                                  LAMBDA i : choice[i] # "absent")
            IN [j \in 1..Len(kept) |->
                   [k |-> keys[kept[j]],
                    v |-> IF choice[kept[j]] = "column" THEN ColumnC ELSE <<>>]]
    IN { Obj(Entries(choice)) : choice \in choices }

\* the records tried with a mapping: the record's content is read only
\* through a mapped column
RecordsFor(fieldMapping) ==
    IF \E i \in 1..Len(fieldMapping.e) : fieldMapping.e[i].v # <<>>
    THEN Records \ {Null} ELSE {Obj(<<>>)}

-----------------------------------------------------------------------------
(* The specification of MessageCustomizer.customizeMessage *)

\* the fields of a new CustomerDataImporter
NewImporter == [rawData |-> <<>>, processedData |-> <<>>, columnHeaders |-> <<>>]

\* the fields of a new SimpleMailBot, on a page that shows the upload section
NewApp ==
    [templateFile |-> Null, smsTemplateFile |-> Null, dataFile |-> Null,
     templateFileLoaded |-> FALSE, smsTemplateFileLoaded |-> FALSE, dataFileLoaded |-> FALSE,
     customers |-> <<>>, mergeFields |-> <<>>, emailMergeFields |-> <<>>,
     smsMergeFields |-> <<>>, fieldMapping |-> <<>>, template |-> <<>>, smsTemplate |-> <<>>,
     uploadSection |-> "block", loadingSpinner |-> "none", reviewSection |-> "none",
     mappingModal |-> "none", errorMessage |-> <<>>,
     emailColumn |-> <<>>, phoneColumn |-> <<>>, currentIndex |-> 0,
     emailColumnSelect |-> <<>>, phoneColumnSelect |-> <<>>, mappingSelects |-> <<>>]

\* A caller is about to call customizeMessage on a new MessageCustomizer:
\* with a template, a mapping of its merge fields and a record, or with an
\* argument that is no object.
InitCustomize ==
    /\ messageEngine = [template |-> <<>>, fieldMapping |-> <<>>]
    /\ dataImporter = NewImporter
    /\ app = NewApp
    /\ runs = <<>>
    /\ \/ \E t \in Templates : \E m \in Mappings(t) : \E d \in RecordsFor(m) :
             call = [op |-> "customizeMessage", state |-> "called",
                     args |-> [template |-> t, customerData |-> d, fieldMapping |-> m]]
       \/ \E t \in {<<>>, <<"a">>} : \E d, m \in {Null, Obj(<<>>)} :
             call = [op |-> "customizeMessage", state |-> "called",
                     args |-> [template |-> t, customerData |-> d, fieldMapping |-> m]]

CustomizeMessage ==
    /\ call.op = "customizeMessage"
    /\ call.state = "called"
    /\ LET args == call.args
           result == customizeMessage(args.template, args.customerData, args.fieldMapping)
       IN /\ call' = [op |-> "customizeMessage", state |-> "returned", args |-> args,
                      result |-> result]
          /\ messageEngine' =
               IF result.success
               THEN [template |-> args.template, fieldMapping |-> args.fieldMapping.e]
               ELSE messageEngine
          /\ UNCHANGED <<dataImporter, app, runs>>

NextCustomize == CustomizeMessage

SpecCustomize == InitCustomize /\ [][NextCustomize]_vars

-----------------------------------------------------------------------------
(* Claims about customizeMessage *)

\* customizeMessage has returned a customized message
Customized ==
    /\ call.op = "customizeMessage"
    /\ call.state = "returned"
    /\ call.result.success

\* the merge fields replaceFields finds in the template of the call
FoundFields == Range(MatchAll(call.args.template, MergeFieldOpen, 1))

\* the value the record of the call holds for a merge field's column
ValueOf(mergeField) ==
    getCustomerValue(call.args.customerData.e,
                     MappedColumn(call.args.fieldMapping.e, mergeField))

IsBlank(v) == v = Null \/ (IsStr(v) /\ trim(v.s) = <<>>)

\* C1: when a merge field found in the template has no mapping entry, or an
\* empty one, the returned message contains [UNMAPPED: <name>] for it and
\* validation.isValid is false.
C1_UnmappedIsFlagged ==
    Customized =>
        \A mergeField \in FoundFields :
            MappedColumn(call.args.fieldMapping.e, mergeField) = <<>> =>
                /\ includes(call.result.message,
                            UnmappedSentinel(StripFieldBrackets(mergeField)))
                /\ ~call.result.validation.isValid

\* C2: when a merge field is mapped to a column whose value is null, absent
\* or blank, customizeMessage succeeds, the message contains a sentinel for
\* the field, the warnings hold a missing-data warning and isValid is false.
C2_MissingIsFlagged ==
    (call.op = "customizeMessage" /\ call.state = "returned"
        /\ call.args.template # <<>>
        /\ call.args.customerData # Null /\ call.args.fieldMapping # Null) =>
        \A mergeField \in FoundFields :
            (/\ MappedColumn(call.args.fieldMapping.e, mergeField) # <<>>
             /\ IsBlank(ValueOf(mergeField))) =>
                /\ call.result.success
                /\ \/ includes(call.result.message,
                               MissingSentinel(StripFieldBrackets(mergeField)))
                   \/ includes(call.result.message,
                               EmptySentinel(StripFieldBrackets(mergeField)))
                /\ \E i \in 1..Len(call.result.validation.warnings) :
                      call.result.validation.warnings[i].warning = "missing"
                /\ ~call.result.validation.isValid

\* C3: round trip: when every token extracted from the template is mapped to
\* a column that holds a non-empty value, extracting the tokens of the
\* customized message again yields none.
C3_RoundTripLeavesNoToken ==
    (/\ Customized
     /\ \A token \in Range(ExtractMergeFields(call.args.template)) :
           /\ MappedColumn(call.args.fieldMapping.e, token) # <<>>
           /\ ~IsBlank(ValueOf(token))) =>
        ExtractMergeFields(call.result.message) = <<>>

-----------------------------------------------------------------------------
(* The inputs of importFile *)

MaxBodyRows == 2
MaxLeadRows == 26
MaxDataRows == 2

\* The cells of a worksheet as sheet_to_json returns them with defval '': an
\* empty cell, a text of the cell's column, and a blank text or the number 0.
ColumnTexts == <<"a", "b", "c">>
SheetCells(column) ==
    {Str(<<>>), Str(<<ColumnTexts[column]>>), IF column = 2 THEN Str(<<" ">>) ELSE Num(0)}

\* blankrows: false leaves no row out of empty cells only
SheetRows ==
    { row \in { <<c1, c2, c3>> : c1 \in SheetCells(1), c2 \in SheetCells(2), c3 \in SheetCells(3) } :
        \E i \in 1..Len(ColumnTexts) : row[i] # Str(<<>>) }

\* a title row, as exports put above the header row
TitleRow == <<Str(<<"T">>), Str(<<>>), Str(<<>>)>>
HeaderABC == <<Str(<<"a">>), Str(<<"b">>), Str(<<"c">>)>>

\* the numbers of title rows: few, or around the HeaderScanRows rows scanned
LeadCounts == {0, 1}
LongLeadCounts == (HeaderScanRows - 1)..MaxLeadRows

\* title rows, then up to MaxBodyRows rows: any rows under few title rows,
\* rows with two or three non-empty cells under many
Sheets ==
    { [i \in 1..n |-> TitleRow] \o body :
        n \in LeadCounts, body \in UNION { [1..k -> SheetRows] : k \in 0..MaxBodyRows } }
    \cup
    { [i \in 1..n |-> TitleRow] \o body :
        n \in LongLeadCounts,
        body \in UNION { [1..k -> { HeaderABC, <<Num(0), Str(<<"b">>), Str(<<"c">>)>>,
                                    <<Str(<<"a">>), Str(<<"b">>), Str(<<>>)>> }] :
                           k \in 0..MaxBodyRows } }

\* a workbook of no worksheet, of one, or of two: a worksheet with a title
\* row only beside a worksheet of one to three rows
SmallSheets == { <<>>, <<HeaderABC>>, <<HeaderABC, HeaderABC>>, <<TitleRow, HeaderABC, HeaderABC>> }
Workbooks ==
    {<<>>} \cup { <<sheet>> : sheet \in Sheets }
           \cup { <<<<TitleRow>>, sheet>> : sheet \in SmallSheets }
           \cup { <<sheet, <<TitleRow>>>> : sheet \in SmallSheets }

\* the header row of a delimited file and the rows under it, with the typed
\* cells of dynamicTyping; the cleaned names of the header row differ, since
\* what Papa.parse does with a repeated name is not the importer's code
CsvHeaderCells == {<<>>, <<"a">>, <<"A">>, <<" ", "a">>, <<"b">>}
CsvHeaderRows ==
    { h \in { <<Str(h1), Str(h2)>> : h1, h2 \in CsvHeaderCells } :
        cleanHeader(h[1]) # cleanHeader(h[2]) }
CsvBodies ==
    UNION { [1..n -> { <<c1, c2>> : c1, c2 \in {Null, Str(<<"x">>), Num(0)} }] :
              n \in 0..MaxDataRows }

\* a FileReader error, as Papa.parse reports it
PapaError == Error(<<"The file could not be read.">>, {})

\* A file is null, or has a format by its type and name.  A delimited file
\* is what Papa.parse makes of it, a spreadsheet file what each attempt to
\* read and parse it makes of it and the workbook it holds; library says
\* whether the page has loaded the library of the format.
CsvFile(library, parse, table) ==
    [format |-> "csv", library |-> library, parse |-> parse, table |-> table]
ExcelFile(library, arrayBuffer, binaryString, workbook) ==
    [format |-> "xlsx", library |-> library, arrayBuffer |-> arrayBuffer,
     binaryString |-> binaryString, workbook |-> workbook]
OtherFile == [format |-> "other"]

CsvFiles ==
    { CsvFile(TRUE, "complete", <<h>> \o body) : h \in CsvHeaderRows, body \in CsvBodies }
    \cup { CsvFile(library, parse, <<>>) : library \in BOOLEAN, parse \in {"complete", "error"} }
ExcelFiles ==
    { ExcelFile(TRUE, "ok", "ok", workbook) : workbook \in Workbooks }
    \cup { ExcelFile(library, arrayBuffer, binaryString, workbook) :
             library \in BOOLEAN, arrayBuffer, binaryString \in {"ok", "fail"},
             workbook \in {<<>>} \cup { <<sheet>> : sheet \in SmallSheets } }
ImportFiles == {Null, OtherFile} \cup CsvFiles \cup ExcelFiles

-----------------------------------------------------------------------------
(* The specification of CustomerDataImporter.importFile *)

\* what importFile returns for a file
importCSV(file) ==
    IF ~file.library
    THEN ImportFailure(<<"PapaParse library is not loaded. Cannot process CSV files.">>)
    ELSE IF file.parse = "error"
    THEN ImportFailure(<<"CSV parsing failed: ">> \o PapaError.message)
    ELSE processCSVResults(IF Len(file.table) = 0 THEN [data |-> <<>>] ELSE PapaParse(file.table))

importExcel(file) ==
    IF ~file.library
    THEN ImportFailure(<<"SheetJS library is not loaded. Cannot process Excel files.">>)
    ELSE IF file.arrayBuffer = "ok" \/ file.binaryString = "ok"
    THEN processWorkbook(file.workbook)
    ELSE ImportFailure(getErrorMessage(CouldNotParse))

importFile(file) ==
    IF file = Null THEN ImportFailure(<<"No file provided">>)
    ELSE IF file.format = "csv" THEN importCSV(file)
    ELSE IF file.format = "xlsx" THEN importExcel(file)
    ELSE ImportFailure(<<"Unsupported file type. Please provide a CSV or Excel (.xlsx) file.">>)

\* this.rawData of a successful import
rawDataOf(file) ==
    IF file.format = "csv" THEN PapaParse(file.table).data
    ELSE convertExcelToJSON(file.workbook[bestSheet(file.workbook)])

InitImport ==
    /\ messageEngine = [template |-> <<>>, fieldMapping |-> <<>>]
    /\ dataImporter = NewImporter
    /\ app = NewApp
    /\ runs = <<>>
    /\ \E file \in ImportFiles :
          call = [op |-> "importFile", state |-> "called", file |-> file, attempts |-> <<>>]

\* importFile, importCSV or importExcel returns result, after the attempts
\* made to read and parse the file
Return(result, attempts) ==
    /\ call' = [state |-> "returned", result |-> result, attempts |-> attempts] @@ call
    /\ dataImporter' =
         IF result.success
         THEN [rawData |-> rawDataOf(call.file), processedData |-> result.data,
               columnHeaders |-> result.headers]
         ELSE dataImporter
    /\ UNCHANGED <<messageEngine, app, runs>>

\* an attempt of importExcel to read the file with a FileReader and to parse
\* what it read with XLSX.read
Attempt(read, outcome) ==
    LET attempts == Append(call.attempts, [read |-> read, ok |-> outcome = "ok"])
    IN IF outcome = "ok"
       THEN Return(processWorkbook(call.file.workbook), attempts)
       ELSE /\ call' = [state |-> afterFailedAttempt(attempts), attempts |-> attempts,
                         error |-> CouldNotParse] @@ call
            /\ UNCHANGED <<messageEngine, dataImporter, app, runs>>

\* importFile up to the first await of importCSV or importExcel
ImportFile ==
    /\ call.op = "importFile"
    /\ call.state = "called"
    /\ IF call.file # Null /\ call.file.format \in {"csv", "xlsx"} /\ call.file.library
       THEN /\ call' = [state |-> IF call.file.format = "csv" THEN "parsing"
                                   ELSE "readAsArrayBuffer"] @@ call
            /\ UNCHANGED <<messageEngine, dataImporter, app, runs>>
       ELSE Return(importFile(call.file), call.attempts)

\* the complete callback of Papa.parse
PapaComplete ==
    /\ call.op = "importFile"
    /\ call.state = "parsing"
    /\ call.file.parse = "complete"
    /\ Return(processCSVResults(IF Len(call.file.table) = 0 THEN [data |-> <<>>]
                                ELSE PapaParse(call.file.table)),
              Append(call.attempts, [read |-> "Papa", ok |-> TRUE]))

\* the error callback of Papa.parse
PapaFailed ==
    /\ call.op = "importFile"
    /\ call.state = "parsing"
    /\ call.file.parse = "error"
    /\ Return(ImportFailure(<<"CSV parsing failed: ">> \o PapaError.message),
              Append(call.attempts, [read |-> "Papa", ok |-> FALSE]))

FirstAttempt ==
    /\ call.op = "importFile"
    /\ call.state = "readAsArrayBuffer"
    /\ Attempt("ArrayBuffer", call.file.arrayBuffer)

FallbackAttempt ==
    /\ call.op = "importFile"
    /\ call.state = "readAsBinaryString"
    /\ Attempt("BinaryString", call.file.binaryString)

\* the catch of importExcel
CatchExcelError ==
    /\ call.op = "importFile"
    /\ call.state = "thrown"
    /\ Return(ImportFailure(getErrorMessage(call.error)), call.attempts)

NextImport ==
    \/ ImportFile
    \/ PapaComplete
    \/ PapaFailed
    \/ FirstAttempt
    \/ FallbackAttempt
    \/ CatchExcelError

SpecImport == InitImport /\ [][NextImport]_vars

-----------------------------------------------------------------------------
(* Claims about importFile *)

Imported == call.op = "importFile" /\ call.state = "returned"

\* the call has parsed a delimited file into a table with a header row
ParsedCsv ==
    /\ Imported
    /\ call.file # Null /\ call.file.format = "csv"
    /\ call.file.library /\ call.file.parse = "complete" /\ Len(call.file.table) > 0

\* the call has read a workbook with a worksheet of at least one row
ReadSheet ==
    /\ Imported
    /\ call.file # Null /\ call.file.format = "xlsx"
    /\ \E k \in 1..Len(call.attempts) : call.attempts[k].ok
    /\ Len(call.file.workbook) > 0
    /\ Len(call.file.workbook[bestSheet(call.file.workbook)]) > 0

TheSheet == call.file.workbook[bestSheet(call.file.workbook)]
TheHeaderRow == TheSheet[headerRowIndex(TheSheet) + 1]

\* a name after case and whitespace normalization
NormalizedName(name) == SelectSeq(toLowerCase(name), LAMBDA c : ~IsSpace(c))

\* a cell is non-empty when it holds a number or a text that is not blank
IsNonEmptyCell(cell) == cell # Null /\ ~(IsStr(cell) /\ trim(cell.s) = <<>>)
NonEmptyCells(row) == Len(SelectSeq(row, IsNonEmptyCell))

\* the rows under the header row, and those of them with two non-empty cells
RowsUnderHeader ==
    IF call.file.format = "csv" THEN Slice(call.file.table, 2)
    ELSE Slice(TheSheet, headerRowIndex(TheSheet) + 2)
RowsToRetain == SelectSeq(RowsUnderHeader, LAMBDA row : NonEmptyCells(row) >= 2)

\* C4: a successful import of a delimited file returns headers of which no
\* two are equal after case and whitespace normalization, one record for each
\* retained row, and records whose keys are exactly the headers.
C4_CsvHeadersAreUnique ==
    (ParsedCsv /\ call.result.success) =>
        /\ \A i, j \in 1..Len(call.result.headers) :
              i # j => NormalizedName(call.result.headers[i])
                         # NormalizedName(call.result.headers[j])
        /\ Len(call.result.data) = Len(RowsToRetain)
        /\ \A r \in 1..Len(call.result.data) :
              Keys(call.result.data[r]) = call.result.headers

\* the key of the records for the column at index (from 0) of the worksheet
ColumnKey(index) ==
    finalHeader([i \in 1..Len(TheHeaderRow) |-> cleanHeader(TheHeaderRow[i])], index)

\* a header cell that is empty or whose text is empty after cleaning
IsEmptyHeader(cell) ==
    IsStr(cell) /\ trim(SelectSeq(cell.s, IsHeaderChar)) = <<>>

\* C5: in a spreadsheet import every header cell that is empty, or empty after
\* cleaning, gets the key Unknown_<i> of its column position i, no two columns
\* share a key, and every record has a value for every column.
C5_EmptyHeadersAreNumbered ==
    ReadSheet =>
        /\ \A i \in 1..Len(TheHeaderRow) :
              IsEmptyHeader(TheHeaderRow[i])
                 => ColumnKey(i - 1) = UNKNOWN \o <<"_">> \o NatToString(i - 1)
        /\ \A i, j \in 1..Len(TheHeaderRow) : i # j => ColumnKey(i - 1) # ColumnKey(j - 1)
        /\ \A r \in 1..Len(call.result.data) :
              /\ Len(call.result.data[r]) = Len(TheHeaderRow)
              /\ \A i \in 1..Len(TheHeaderRow) : HasKey(call.result.data[r], ColumnKey(i - 1))

\* the header row of the claim: the first of the first 25 rows with at least
\* 3 non-empty cells, row 0 when there is none
QualifyingRows(sheet) ==
    { i \in 0..((IF Len(sheet) < 25 THEN Len(sheet) ELSE 25) - 1) : NonEmptyCells(sheet[i + 1]) >= 3 }
ClaimedHeaderRow(sheet) ==
    IF QualifyingRows(sheet) = {} THEN 0 ELSE Min(QualifyingRows(sheet))

\* C6: the header row of a worksheet is the lowest-index row among its first
\* 25 rows that has at least 3 non-empty cells; when there is no such row the
\* header row is row 0, and an import that fails then fails for want of data.
C6_HeaderRowIsFirstQualifying ==
    ReadSheet =>
        /\ headerRowIndex(TheSheet) = ClaimedHeaderRow(TheSheet)
        /\ (QualifyingRows(TheSheet) = {} /\ ~call.result.success)
              => call.result.error = <<"No data found in Excel file.">>

\* the values of a row, cleaned: a text trimmed, an empty field the empty text
CleanedValues(row) == [i \in 1..Len(row) |-> cleanValue(row[i])]

\* C7: a row under the header row is retained as a record if and only if at
\* least 2 of its cells are non-empty: the records are the rows with 2
\* non-empty cells, in order, and the import succeeds when there is one.
C7_RowsWithTwoCellsAreRetained ==
    (ParsedCsv \/ ReadSheet) =>
        /\ call.result.success <=> Len(RowsToRetain) > 0
        /\ Len(call.result.data) = Len(RowsToRetain)
        /\ \A r \in 1..Len(call.result.data) :
              Values(call.result.data[r]) = CleanedValues(RowsToRetain[r])

\* the cause for which the import of a file fails, "none" for a file that is
\* imported or fails for a cause the claim does not name
FailureCause(file) ==
    IF file = Null THEN "no or empty input"
    ELSE IF file.format = "other" THEN "unsupported extension"
    ELSE IF ~file.library THEN "none"
    ELSE IF file.format = "csv"
    THEN IF file.parse = "error" THEN "unreadable or corrupt bytes"
         ELSE IF Len(file.table) <= 1 THEN "no or empty input"
         ELSE IF \A i \in 2..Len(file.table) : NonEmptyCells(file.table[i]) < 2
         THEN "zero valid rows"
         ELSE "none"
    ELSE IF file.arrayBuffer = "fail" /\ file.binaryString = "fail"
    THEN "unreadable or corrupt bytes"
    ELSE IF Len(file.workbook) = 0 THEN "no worksheets"
    ELSE LET sheet == file.workbook[bestSheet(file.workbook)]
             rows == Slice(sheet, headerRowIndex(sheet) + 2)
         IN IF Len(sheet) = 0 \/ Len(rows) = 0 THEN "no or empty input"
            ELSE IF \A i \in 1..Len(rows) : NonEmptyCells(rows[i]) < 2
            THEN "zero valid rows"
            ELSE "none"

\* a file for each cause and format
CsvHeaderAB == <<Str(<<"a">>), Str(<<"b">>)>>
CauseExamples ==
    { CsvFile(TRUE, "error", <<>>),
      CsvFile(TRUE, "complete", <<>>),
      CsvFile(TRUE, "complete", <<CsvHeaderAB, <<Str(<<"x">>), Null>>>>),
      ExcelFile(TRUE, "fail", "fail", <<>>),
      ExcelFile(TRUE, "ok", "ok", <<>>),
      ExcelFile(TRUE, "ok", "ok", <<<<>>>>),
      ExcelFile(TRUE, "ok", "ok", <<<<HeaderABC, TitleRow>>>>) }

\* C8: for each cause of failure importFile returns success = false with a
\* non-empty message, and the messages it returns for two different causes on
\* files of the same format are different.
C8_FailuresHaveDistinctMessages ==
    (Imported /\ FailureCause(call.file) # "none") =>
        /\ ~call.result.success
        /\ call.result.error # <<>>
        /\ \A other \in CauseExamples :
              (/\ call.file # Null
               /\ other.format = call.file.format
               /\ FailureCause(other) \notin {"none", FailureCause(call.file)})
                 => importFile(other).error # call.result.error

\* C9 as the specification states it: after an attempt to read and parse the
\* file has failed, importFile makes no other attempt.
C9_NoAttemptAfterFailure ==
    call.op = "importFile" =>
        \A k \in 1..Len(call.attempts) : ~call.attempts[k].ok => k = Len(call.attempts)

\* C9: within one importFile call a delimited file is parsed once, and a
\* spreadsheet file is read and parsed at most twice: as an ArrayBuffer and,
\* only when that attempt has failed, once more as a binary string; when the
\* second attempt has failed too, no other attempt is made and the call
\* returns success = false.
C9_OneFallbackAttempt ==
    call.op = "importFile" =>
        /\ Len(call.attempts) <= (IF call.file # Null /\ call.file.format = "xlsx" THEN 2 ELSE 1)
        /\ Len(call.attempts) = 2 =>
              /\ call.attempts[1] = [read |-> "ArrayBuffer", ok |-> FALSE]
              /\ call.attempts[2].read = "BinaryString"
        /\ (call.state = "returned" /\ Len(call.attempts) > 0
              /\ ~call.attempts[Len(call.attempts)].ok) => ~call.result.success

\* both attempts on a spreadsheet file have failed and the call has returned
C9_Witness ==
    /\ Imported
    /\ Len(call.attempts) = 2
    /\ ~call.attempts[1].ok /\ ~call.attempts[2].ok
    /\ ~call.result.success

-----------------------------------------------------------------------------
(* SimpleMailBot: startProcessing, autoMapFields, displayMappingModal, resetUI *)

\* field.replace(/[\\[\\]]/g, ''): the expression matches a backslash or an
\* opening bracket that a closing bracket follows
RECURSIVE RemoveBracketPairs(_, _)
RemoveBracketPairs(s, i) ==
    IF i > Len(s) THEN <<>>
    ELSE IF s[i] \in {"\\", "["} /\ i < Len(s) /\ s[i + 1] = "]"
    THEN RemoveBracketPairs(s, i + 2)
    ELSE <<s[i]>> \o RemoveBracketPairs(s, i + 1)

\* s.replace(/ /g, '')
RemoveBlanks(s) == SelectSeq(s, LAMBDA c : c # " ")

\* Object.keys(this.customers[0]), [] without a customer
HeadersOf(customers) == IF Len(customers) > 0 THEN Keys(customers[1]) ELSE <<>>

\* headers.find(test) || '' 
FindHeader(headers, Test(_)) ==
    IF FindIndex(headers, Test) = 0 THEN <<>> ELSE headers[FindIndex(headers, Test)]

\* this.fieldMapping of autoMapFields: an entry for each merge field, in order
autoMapFields(mergeFields, customers) ==
    LET cleanField(field) == RemoveBlanks(toLowerCase(RemoveBracketPairs(field, 1)))
        Matches(field, header) == RemoveBlanks(toLowerCase(header)) = cleanField(field)
    IN [i \in 1..Len(mergeFields) |->
          [k |-> mergeFields[i],
           v |-> FindHeader(HeadersOf(customers),
                            LAMBDA header : Matches(mergeFields[i], header))]]

\* the page after displayMappingModal
displayMappingModal(a) ==
    LET headers == HeadersOf(a.customers)
        IsPhoneHeader(h) == \/ includes(toLowerCase(h), PHONE)
                            \/ includes(toLowerCase(h), MOBILE)
                            \/ includes(toLowerCase(h), CELL)
    IN [a EXCEPT !.loadingSpinner = "none",
                 !.emailColumnSelect =
                     FindHeader(headers, LAMBDA h : includes(toLowerCase(h), EMAIL)),
                 !.phoneColumnSelect = FindHeader(headers, IsPhoneHeader),
                 !.mappingSelects = a.fieldMapping,
                 !.mappingModal = "flex"]

\* the fields and the page after resetUI(message)
resetUI(a, message) ==
    [a EXCEPT !.loadingSpinner = "none",
              !.uploadSection = "block",
              !.reviewSection = "none",
              !.mappingModal = "none",
              !.errorMessage = IF message # <<>> THEN <<"Error: ">> \o message ELSE @,
              !.templateFile = Null, !.smsTemplateFile = Null, !.dataFile = Null,
              !.template = <<>>, !.smsTemplate = <<>>,
              !.templateFileLoaded = FALSE, !.smsTemplateFileLoaded = FALSE,
              !.dataFileLoaded = FALSE]

\* a startProcessing that goes on to the mapping whatever the import returned
goesOnAfterFailure(dataResult) == FALSE

\* if (!dataResult.success) throw new Error(dataResult.error)
throwsError(dataResult) == ~dataResult.success

\* A run of startProcessing: where it is (at the await of a file's
\* arrayBuffer or conversion, at the await of importFile, or done), the file
\* it awaits, what its import returned, whether it has built and shown the
\* mapping, and the message of the error it has caught.
Run(pc, file) ==
    [pc |-> pc, file |-> file, imported |-> "no", mapped |-> FALSE, shown |-> FALSE,
     error |-> <<>>]

\* startProcessing from step 2 on, up to its next await
AfterEmailTemplate(a) ==
    LET b == [a EXCEPT !.smsMergeFields = <<>>]
        c == [b EXCEPT !.mergeFields = Unique(b.emailMergeFields \o b.smsMergeFields)]
    IN IF b.smsTemplateFile # Null
       THEN [app |-> b, run |-> Run("smsArrayBuffer", b.smsTemplateFile)]
       ELSE [app |-> c, run |-> Run("importFile", c.dataFile)]

\* startProcessing up to its first await
startProcessing(a) ==
    LET b == [a EXCEPT !.uploadSection = "none", !.loadingSpinner = "block",
                       !.errorMessage = <<>>, !.emailMergeFields = <<>>]
    IN IF b.templateFile # Null
       THEN [app |-> b, run |-> Run("arrayBuffer", b.templateFile)]
       ELSE AfterEmailTemplate(b)

-----------------------------------------------------------------------------
(* The specification of SimpleMailBot *)

MaxRuns == 2

\* A template file is the markup mammoth.convertToHtml makes of it, or it is a
\* file that cannot be read, or one that cannot be converted.
TemplateFile(html, outcome) == [html |-> html, outcome |-> outcome]
HtmlA == <<"[", "a", "]">>
HtmlB == <<"<", "b", ">", "[", "b", "]", " ", "[", "a", "]">>
TemplateFiles ==
    { TemplateFile(HtmlB, "ok"), TemplateFile(HtmlA, "unreadable"),
      TemplateFile(HtmlA, "unconvertible") }
SmsTemplateFiles == { TemplateFile(HtmlA, "ok"), TemplateFile(HtmlB, "unconvertible") }

\* the error of File.arrayBuffer
ReadError == Error(<<"The requested file could not be read.">>, {})

CustomersTable ==
    << <<Str(<<"a">>), Str(<<"E", "m", "a", "i", "l">>)>>,
       <<Str(<<"x">>), Str(<<"x">>)>>,
       <<Num(0), Null>> >>
DataFiles ==
    { CsvFile(TRUE, "complete", CustomersTable),
      ExcelFile(TRUE, "fail", "fail", <<>>),
      ExcelFile(TRUE, "fail", "ok", <<<<HeaderABC, TitleRow>>>>) }

Init ==
    /\ messageEngine = [template |-> <<>>, fieldMapping |-> <<>>]
    /\ dataImporter = NewImporter
    /\ app = NewApp
    /\ runs = <<>>
    /\ call = [op |-> "none"]

\* the user selects or drops a file: processFile, and the start of
\* startProcessing when a template and the data are there
ProcessFile(file, type) ==
    LET a == IF type = "template"
             THEN [app EXCEPT !.templateFile = file, !.templateFileLoaded = TRUE]
             ELSE IF type = "smsTemplate"
             THEN [app EXCEPT !.smsTemplateFile = file, !.smsTemplateFileLoaded = TRUE]
             ELSE [app EXCEPT !.dataFile = file, !.dataFileLoaded = TRUE]
        starts == (a.templateFile # Null \/ a.smsTemplateFile # Null) /\ a.dataFile # Null
    IN /\ starts => Len(runs) < MaxRuns
       /\ app' = IF starts THEN startProcessing(a).app ELSE a
       /\ runs' = IF starts THEN Append(runs, startProcessing(a).run) ELSE runs
       /\ UNCHANGED <<messageEngine, dataImporter, call>>

\* the catch of startProcessing in run r
Catch(r, error, imported) ==
    /\ app' = resetUI(app, error.message)
    /\ runs' = [runs EXCEPT ![r] = [@ EXCEPT !.pc = "failed", !.imported = imported,
                                             !.error = error.message]]

\* the arrayBuffer of the template file of run r is read, or cannot be
ArrayBufferRead(r) ==
    /\ runs[r].pc \in {"arrayBuffer", "smsArrayBuffer"}
    /\ IF runs[r].file.outcome = "unreadable"
       THEN Catch(r, ReadError, "no")
       ELSE /\ runs' = [runs EXCEPT ![r].pc = IF @ = "arrayBuffer" THEN "convertToHtml"
                                                ELSE "smsConvertToHtml"]
            /\ UNCHANGED app
    /\ UNCHANGED <<messageEngine, dataImporter, call>>

\* mammoth.convertToHtml returns the markup of the template of run r, or throws
Converted(r) ==
    /\ runs[r].pc \in {"convertToHtml", "smsConvertToHtml"}
    /\ IF runs[r].file.outcome = "unconvertible"
       THEN Catch(r, Error(<<"Can't find end of central directory : is this a zip file ?">>, {}), "no")
       ELSE LET html == runs[r].file.html
                email == [app EXCEPT !.template = html,
                                     !.emailMergeFields = ExtractMergeFields(html)]
                sms == [app EXCEPT !.smsTemplate = html,
                                   !.smsMergeFields = ExtractMergeFields(html),
                                   !.mergeFields =
                                       Unique(app.emailMergeFields \o ExtractMergeFields(html))]
            IN IF runs[r].pc = "convertToHtml"
               THEN /\ app' = AfterEmailTemplate(email).app
                    /\ runs' = [runs EXCEPT ![r] = AfterEmailTemplate(email).run]
               ELSE /\ app' = sms
                    /\ runs' = [runs EXCEPT ![r] = Run("importFile", sms.dataFile)]
    /\ UNCHANGED <<messageEngine, dataImporter, call>>

\* importFile returns to run r: the throw on a failure, or steps 4 and 5
ImportReturned(r) ==
    /\ runs[r].pc = "importFile"
    /\ LET dataResult == importFile(runs[r].file)
           imported == IF dataResult.success THEN "success" ELSE "failure"
           a == [app EXCEPT !.customers = dataResult.data,
                            !.fieldMapping = autoMapFields(app.mergeFields, dataResult.data)]
       IN /\ dataImporter' =
               IF dataResult.success
               THEN [rawData |-> rawDataOf(runs[r].file), processedData |-> dataResult.data,
                     columnHeaders |-> dataResult.headers]
               ELSE dataImporter
          /\ IF throwsError(dataResult)
             THEN Catch(r, Error(dataResult.error, {}), imported)
             ELSE /\ app' = displayMappingModal(a)
                  /\ runs' = [runs EXCEPT ![r] = [@ EXCEPT !.pc = "done", !.imported = imported,
                                                           !.mapped = TRUE, !.shown = TRUE]]
    /\ UNCHANGED <<messageEngine, call>>

Next ==
    \/ \E file \in TemplateFiles : ProcessFile(file, "template")
    \/ \E file \in SmsTemplateFiles : ProcessFile(file, "smsTemplate")
    \/ \E file \in DataFiles : ProcessFile(file, "data")
    \/ \E r \in 1..Len(runs) : ArrayBufferRead(r)
    \/ \E r \in 1..Len(runs) : Converted(r)
    \/ \E r \in 1..Len(runs) : ImportReturned(r)

Spec == Init /\ [][Next]_vars

-----------------------------------------------------------------------------
(* Claims about startProcessing *)

\* run r has caught an error in this step
Fails(r) == r <= Len(runs) /\ runs[r].pc # "failed" /\ runs'[r].pc = "failed"

\* C10: in a run of startProcessing the mapping is built (autoMapFields) and
\* shown (the mapping modal) only after importFile has returned success = true;
\* a run whose import returns success = false, or in which an earlier step
\* throws, builds and shows no mapping, and when it fails the page is back at
\* the upload section with the message of the error displayed.
C10_MappingOnlyAfterImport ==
    [][\A r \in 1..Len(runs') :
          /\ (runs'[r].mapped \/ runs'[r].shown) => runs'[r].imported = "success"
          /\ runs'[r].imported = "failure" => runs'[r].pc = "failed"
          /\ runs'[r].pc = "failed" => ~runs'[r].mapped /\ ~runs'[r].shown
          /\ Fails(r) =>
                /\ app'.uploadSection = "block"
                /\ app'.loadingSpinner = "none"
                /\ app'.mappingModal = "none"
                /\ app'.reviewSection = "none"
                /\ runs'[r].error # <<>>
                /\ app'.errorMessage = <<"Error: ">> \o runs'[r].error]_vars

\* a run has failed on the result of importFile and the page shows its message
C10_Witness ==
    \E r \in 1..Len(runs) :
        /\ runs[r].pc = "failed"
        /\ runs[r].imported = "failure"
        /\ app.uploadSection = "block"
        /\ app.mappingModal = "none"
        /\ app.errorMessage = <<"Error: ">> \o runs[r].error

-----------------------------------------------------------------------------
(* The specification of placeholder extraction: steps 1 to 3 of            *)
(* SimpleMailBot.startProcessing applied to the markup of a converted      *)
(* template                                                                *)

MaxPieces == 3
MaxPasses == 2

\* the pieces a markup is made of: single characters, a token and a token
\* with a blank after it
MarkupPieces == { <<"[">>, <<"]">>, <<"<">>, <<">">>, <<"a">>, <<" ">>,
                  <<"[", "a", "]">>, <<"[", "b", "]", " ">> }

RECURSIVE MarkupsOf(_)
MarkupsOf(n) ==
    IF n = 0 THEN { <<>> }
    ELSE LET shorter == MarkupsOf(n - 1)
         IN shorter \cup { m \o p : m \in shorter, p \in MarkupPieces }

Markups == MarkupsOf(MaxPieces)

\* startProcessing is about to extract the merge fields of a converted template
InitExtract ==
    /\ messageEngine = [template |-> <<>>, fieldMapping |-> <<>>]
    /\ dataImporter = NewImporter
    /\ app = NewApp
    /\ runs = <<>>
    /\ \E html \in Markups :
          call = [op |-> "extract", html |-> html, passes |-> <<>>]

\* steps 1 to 3 of startProcessing with the email template only: the fields
\* are set anew from the markup, then combined
ExtractFields ==
    /\ call.op = "extract"
    /\ Len(call.passes) < MaxPasses
    /\ LET emailMergeFields == ExtractMergeFields(call.html)
           smsMergeFields == <<>>
           mergeFields == Unique(emailMergeFields \o smsMergeFields)
       IN /\ app' = [app EXCEPT !.template = call.html,
                                !.emailMergeFields = emailMergeFields,
                                !.smsMergeFields = smsMergeFields,
                                !.mergeFields = mergeFields]
          /\ call' = [call EXCEPT !.passes = Append(@, mergeFields)]
    /\ UNCHANGED <<messageEngine, dataImporter, runs>>

NextExtract == ExtractFields

SpecExtract == InitExtract /\ [][NextExtract]_vars

-----------------------------------------------------------------------------
(* Claims about placeholder extraction *)

\* the merge fields have been extracted from the markup of the call
Extracted == call.op = "extract" /\ call.passes # <<>>

\* token is opening brackets, then characters that are no brackets, then
\* closing brackets, one or more of each
HasTokenForm(token) ==
    \E i, j \in 1..Len(token) :
        /\ i < j
        /\ j < Len(token)
        /\ \A k \in 1..i : token[k] = "["
        /\ \A k \in (i + 1)..j : ~IsBracket(token[k])
        /\ \A k \in (j + 1)..Len(token) : token[k] = "]"

\* C11: every token placeholder extraction returns is one or more opening
\* brackets "[", then one or more characters that are not brackets, then one
\* or more closing brackets "]".
C11_TokensHaveBracketForm ==
    Extracted => \A k \in 1..Len(app.mergeFields) : HasTokenForm(app.mergeFields[k])

\* the matches of the token pattern in the tag-stripped text, in text order
MatchesInText == MatchTokens(StripTags(call.html), 1)

\* the index of the first occurrence of token among the matches
FirstOccurrence(token) ==
    Min({ i \in 1..Len(MatchesInText) : MatchesInText[i] = token })

\* C12: placeholder extraction returns each distinct literal token exactly
\* once, in the order of the first occurrences in the tag-stripped text, and
\* extracting again from the same markup yields the same ordered token list.
C12_DistinctTokensInOrder ==
    Extracted =>
        LET tokens == app.mergeFields
        IN /\ Range(tokens) = Range(MatchesInText)
           /\ \A i, j \in 1..Len(tokens) : i # j => tokens[i] # tokens[j]
           /\ \A i, j \in 1..Len(tokens) :
                  i < j => FirstOccurrence(tokens[i]) < FirstOccurrence(tokens[j])
           /\ \A p \in 1..Len(call.passes) : call.passes[p] = call.passes[1]

\* the markup was extracted twice; it holds a token twice, after another token
C12_Witness ==
    /\ Extracted
    /\ Len(call.passes) = 2
    /\ Len(app.mergeFields) = 2
    /\ Len(MatchesInText) > 2
    /\ \E i \in 2..Len(MatchesInText) : MatchesInText[i] = MatchesInText[1]

-----------------------------------------------------------------------------
(* CustomerDataImporter: mapping merge fields to columns (autoMapFields,   *)
(* findBestColumnMatch)                                                    *)

\* the variations of the field type 'phone', and the same without 'mobile'
phoneVariationsWithoutMobile == <<<<"p", "h", "o", "n", "e">>, <<"t", "e", "l", "e", "p", "h", "o", "n", "e">>,
       <<"c", "e", "l", "l">>, <<"c", "o", "n", "t", "a", "c", "t">>>>
phoneVariations == <<<<"p", "h", "o", "n", "e">>, <<"t", "e", "l", "e", "p", "h", "o", "n", "e">>, <<"c", "e", "l", "l">>,
       <<"m", "o", "b", "i", "l", "e">>, <<"c", "o", "n", "t", "a", "c", "t">>>>

\* Object.entries(commonMappings): the field types and their variations
commonMappings ==
    <<[fieldType |-> <<"f", "u", "l", "l", "n", "a", "m", "e">>,
        variations |-> <<<<"n", "a", "m", "e">>,
            <<"c", "u", "s", "t", "o", "m", "e", "r">>,
            <<"c", "l", "i", "e", "n", "t">>,
            <<"f", "u", "l", "l", " ", "n", "a", "m", "e">>,
            <<"c", "u", "s", "t", "o", "m", "e", "r", " ", "n", "a", "m", "e">>>>],
      [fieldType |-> <<"f", "i", "r", "s", "t", "n", "a", "m", "e">>,
        variations |-> <<<<"f", "i", "r", "s", "t">>,
            <<"f", "n", "a", "m", "e">>,
            <<"f", "i", "r", "s", "t", " ", "n", "a", "m", "e">>>>],
      [fieldType |-> <<"l", "a", "s", "t", "n", "a", "m", "e">>,
        variations |-> <<<<"l", "a", "s", "t">>,
            <<"l", "n", "a", "m", "e">>,
            <<"l", "a", "s", "t", " ", "n", "a", "m", "e">>,
            <<"s", "u", "r", "n", "a", "m", "e">>>>],
      [fieldType |-> <<"e", "m", "a", "i", "l">>,
        variations |-> <<<<"e", "m", "a", "i", "l">>,
            <<"e", "-", "m", "a", "i", "l">>,
            <<"m", "a", "i", "l">>,
            <<"e", "m", "a", "i", "l", " ", "a", "d", "d", "r", "e", "s", "s">>>>],
      [fieldType |-> <<"p", "h", "o", "n", "e">>,
        variations |-> phoneVariations],
      [fieldType |-> <<"a", "d", "d", "r", "e", "s", "s">>,
        variations |-> <<<<"a", "d", "d", "r", "e", "s", "s">>,
            <<"s", "t", "r", "e", "e", "t">>,
            <<"l", "o", "c", "a", "t", "i", "o", "n">>>>],
      [fieldType |-> <<"d", "a", "t", "e">>,
        variations |-> <<<<"d", "a", "t", "e">>,
            <<"e", "x", "p", "i", "r", "a", "t", "i", "o", "n">>,
            <<"e", "x", "p", "i", "r", "e">>,
            <<"d", "u", "e">>,
            <<"r", "e", "n", "e", "w", "a", "l">>>>]>>

\* fieldName.toLowerCase().replace(/\s+/g, '')
normalized(name) == StripSpaces(toLowerCase(name))

\* the header of the exact match, or Null (undefined) when find finds none
exactMatch(columnHeaders, normalizedFieldName) ==
    LET Same(header) == normalized(header) = normalizedFieldName
        i == FindIndex(columnHeaders, Same)
    IN IF i = 0 THEN Null ELSE Str(columnHeaders[i])

\* the header of the partial match, or Null
partialMatch(columnHeaders, normalizedFieldName) ==
    LET Partial(header) ==
            \/ includes(normalizedFieldName, normalized(header))
            \/ includes(normalized(header), normalizedFieldName)
        i == FindIndex(columnHeaders, Partial)
    IN IF i = 0 THEN Null ELSE Str(columnHeaders[i])

\* the two loops over commonMappings from field type t, variation v on: the
\* first header found and the field type it was found for, or Null
RECURSIVE fuzzyMatch(_, _, _, _)
fuzzyMatch(columnHeaders, normalizedFieldName, t, v) ==
    IF t > Len(commonMappings) THEN [match |-> Null, fieldType |-> <<>>]
    ELSE LET entry == commonMappings[t]
         IN IF ~includes(normalizedFieldName, entry.fieldType) \/ v > Len(entry.variations)
            THEN fuzzyMatch(columnHeaders, normalizedFieldName, t + 1, 1)
            ELSE LET Varies(header) == includes(toLowerCase(header), entry.variations[v])
                     i == FindIndex(columnHeaders, Varies)
                 IN IF i # 0 /\ columnHeaders[i] # <<>>
                    THEN [match |-> Str(columnHeaders[i]), fieldType |-> entry.fieldType]
                    ELSE fuzzyMatch(columnHeaders, normalizedFieldName, t, v + 1)

\* findBestColumnMatch with the return statement that gave the column
bestColumnMatch(columnHeaders, fieldName) ==
    LET normalizedFieldName == normalized(fieldName)
        exact == exactMatch(columnHeaders, normalizedFieldName)
        partial == partialMatch(columnHeaders, normalizedFieldName)
        fuzzy == fuzzyMatch(columnHeaders, normalizedFieldName, 1, 1)
    IN IF fieldName = <<>> THEN [column |-> Null, by |-> "none", fieldType |-> <<>>]
       ELSE IF Truthy(exact) THEN [column |-> exact, by |-> "exact", fieldType |-> <<>>]
       ELSE IF Truthy(partial) THEN [column |-> partial, by |-> "partial", fieldType |-> <<>>]
       ELSE IF Truthy(fuzzy.match)
       THEN [column |-> fuzzy.match, by |-> "fuzzy", fieldType |-> fuzzy.fieldType]
       ELSE [column |-> Null, by |-> "none", fieldType |-> <<>>]

findBestColumnMatch(columnHeaders, fieldName) == bestColumnMatch(columnHeaders, fieldName).column

\* mergeField.replace(/^\[|\]$/g, '').toLowerCase().trim()
cleanFieldName(mergeField) ==
    LET a == IF mergeField # <<>> /\ Head(mergeField) = "[" THEN Tail(mergeField)
             ELSE mergeField
        b == IF a # <<>> /\ a[Len(a)] = "]" THEN SubSeq(a, 1, Len(a) - 1) ELSE a
    IN trim(toLowerCase(b))

\* mergeFields.forEach of the importer's autoMapFields, from field k on
RECURSIVE autoMapLoop(_, _, _, _)
autoMapLoop(columnHeaders, mergeFields, k, mapping) ==
    IF k > Len(mergeFields) THEN mapping
    ELSE LET matchedColumn == findBestColumnMatch(columnHeaders, cleanFieldName(mergeFields[k]))
         IN autoMapLoop(columnHeaders, mergeFields, k + 1,
                        IF Truthy(matchedColumn)
                        THEN SetKey(mapping, mergeFields[k], matchedColumn.s)
                        ELSE mapping)

\* CustomerDataImporter.autoMapFields(mergeFields): the mapping object
importerAutoMapFields(columnHeaders, mergeFields) ==
    autoMapLoop(columnHeaders, mergeFields, 1, <<>>)

-----------------------------------------------------------------------------
(* The specification of reconciliation: the merge fields of a template are *)
(* mapped to the column headers of an imported file                        *)

MaxHeaders == 3

\* header cells of an imported file, as the file has them
RawHeaders == { <<"E", "x", "p", "i", "r", "a", "t", "i", "o", "n", "_", "D", "a", "t", "e">>,
                <<"M", "o", "b", "i", "l", "e">>, <<"C", "e", "l", "l">>,
                <<"N", "a", "m", "e">>, <<"N", "u", "m", "b", "e", "r">>,
                <<"#">> }

\* the column headers after cleanHeader, without repeats, up to n of them
RECURSIVE HeaderListsOf(_)
HeaderListsOf(n) ==
    IF n = 0 THEN { <<>> }
    ELSE LET shorter == HeaderListsOf(n - 1)
         IN shorter \cup { Append(h, cleanHeader(Str(raw))) : h \in shorter, raw \in RawHeaders }

HeaderLists ==
    { h \in HeaderListsOf(MaxHeaders) : \A i, j \in 1..Len(h) : i # j => h[i] # h[j] }

EXPIRATION_DATE_TOKEN == <<"[", "E", "x", "p", "i", "r", "a", "t", "i", "o", "n", " ", "D", "a", "t", "e", "]">>
CUSTOMER_PHONE_NUMBER == <<"C", "u", "s", "t", "o", "m", "e", "r", " ", "P", "h", "o", "n", "e", " ", "N", "u", "m", "b", "e", "r">>

\* merge fields of a template
Tokens == { EXPIRATION_DATE_TOKEN, CUSTOMER_PHONE_NUMBER,
            <<"[", "M", "y", " ", "P", "h", "o", "n", "e", "]">>,
            <<"[", "F", "i", "r", "s", "t", " ", "N", "a", "m", "e", "]">>,
            <<"[", "N", "a", "m", "e", "]">>,
            <<"[", "[", "N", "a", "m", "e", "]", "]">> }

\* one merge field, or one next to [Expiration Date]
TokenLists == { <<t>> : t \in Tokens } \cup { <<t, EXPIRATION_DATE_TOKEN>> : t \in Tokens }

\* a customer record with the given column headers
RecordOf(columnHeaders) ==
    [i \in 1..Len(columnHeaders) |-> [k |-> columnHeaders[i], v |-> Str(<<"x">>)]]

\* A file with the given headers has been imported; the merge fields of the
\* template are about to be mapped.
InitReconcile ==
    /\ messageEngine = [template |-> <<>>, fieldMapping |-> <<>>]
    /\ runs = <<>>
    /\ \E columnHeaders \in HeaderLists : \E mergeFields \in TokenLists :
          /\ dataImporter = [NewImporter EXCEPT !.columnHeaders = columnHeaders]
          /\ app = [NewApp EXCEPT !.mergeFields = Unique(mergeFields),
                                  !.customers = <<RecordOf(columnHeaders)>>]
          /\ call = [op |-> "autoMapFields", state |-> "called", mergeFields |-> mergeFields]

\* CustomerDataImporter.autoMapFields(mergeFields)
ImporterAutoMapFields ==
    /\ call.op = "autoMapFields"
    /\ call.state = "called"
    /\ call' = [op |-> "autoMapFields", state |-> "returned", of |-> "dataImporter",
                mergeFields |-> call.mergeFields,
                result |-> importerAutoMapFields(dataImporter.columnHeaders, call.mergeFields)]
    /\ UNCHANGED <<messageEngine, dataImporter, app, runs>>

\* SimpleMailBot.autoMapFields()
AppAutoMapFields ==
    /\ call.op = "autoMapFields"
    /\ call.state = "called"
    /\ app' = [app EXCEPT !.fieldMapping = autoMapFields(app.mergeFields, app.customers)]
    /\ call' = [op |-> "autoMapFields", state |-> "returned", of |-> "app",
                mergeFields |-> call.mergeFields, result |-> app'.fieldMapping]
    /\ UNCHANGED <<messageEngine, dataImporter, runs>>

NextReconcile == ImporterAutoMapFields \/ AppAutoMapFields

SpecReconcile == InitReconcile /\ [][NextReconcile]_vars

-----------------------------------------------------------------------------
(* Claims about reconciliation *)

\* the importer's autoMapFields has returned its mapping
ImporterMapped ==
    call.op = "autoMapFields" /\ call.state = "returned" /\ call.of = "dataImporter"

\* either autoMapFields has returned its mapping
Reconciled == call.op = "autoMapFields" /\ call.state = "returned"

\* the column the returned mapping gives a token: a header, or Null (unmapped)
ColumnOf(token) ==
    IF HasKey(call.result, token) /\ Get(call.result, token) # <<>>
    THEN Str(Get(call.result, token))
    ELSE Null

\* the canonical form of a token: brackets stripped, case-folded, whitespace removed
Canonical(token) == normalized(SelectSeq(token, LAMBDA c : ~IsBracket(c)))

\* the headers equal to the token after normalization (rule 1)
ExactHeaders(token) ==
    { h \in Range(dataImporter.columnHeaders) : normalized(h) = Canonical(token) }

\* the headers related to the token by substring containment (rule 2)
SubstringHeaders(token) ==
    { h \in Range(dataImporter.columnHeaders) :
        \/ includes(Canonical(token), normalized(h))
        \/ includes(normalized(h), Canonical(token)) }

\* the header of the category-keyword match of a token (rule 3), or Null
KeywordMatch(token) ==
    fuzzyMatch(dataImporter.columnHeaders, Canonical(token), 1, 1).match

\* C13: reconciliation of a token follows a strict priority, independently of
\* the other tokens: a header equal to the token after normalization is chosen
\* if one exists; only otherwise a header related to it by substring
\* containment; only otherwise the category-keyword match; only otherwise the
\* token stays unmapped.  No lower-priority match is returned when a header
\* satisfies a higher-priority rule.
C13_MatchPriority ==
    ImporterMapped =>
        \A k \in 1..Len(call.mergeFields) :
            LET token == call.mergeFields[k]
                column == ColumnOf(token)
            IN /\ ExactHeaders(token) # {} =>
                      column # Null /\ column.s \in ExactHeaders(token)
               /\ ExactHeaders(token) = {} /\ SubstringHeaders(token) # {} =>
                      column # Null /\ column.s \in SubstringHeaders(token)
               /\ ExactHeaders(token) = {} /\ SubstringHeaders(token) = {} =>
                      column = KeywordMatch(token)
               /\ LET alone == importerAutoMapFields(dataImporter.columnHeaders, <<token>>)
                  IN column = (IF alone = <<>> THEN Null ELSE Str(alone[1].v))

MOBILE_COLUMN == <<"M", "o", "b", "i", "l", "e">>
EXPIRATION_DATE == <<"E", "x", "p", "i", "r", "a", "t", "i", "o", "n", "_", "D", "a", "t", "e">>

\* C14: with the token [Expiration Date] and a header list that has the column
\* Expiration_Date, reconciliation maps the token to Expiration_Date, by the
\* normalized-exact rule (rule 1) and no later rule.
C14_ExpirationDateIsExactMatch ==
    /\ Reconciled
    /\ EXPIRATION_DATE_TOKEN \in Range(call.mergeFields)
    /\ EXPIRATION_DATE \in Range(dataImporter.columnHeaders)
    => /\ ColumnOf(EXPIRATION_DATE_TOKEN) = Str(EXPIRATION_DATE)
       /\ ImporterMapped =>
             bestColumnMatch(dataImporter.columnHeaders,
                             cleanFieldName(EXPIRATION_DATE_TOKEN)).by = "exact"

\* the token Customer Phone Number is reconciled against headers of which
\* none matches it exactly or by substring and one is Mobile
PhoneNumberCase ==
    /\ ImporterMapped
    /\ CUSTOMER_PHONE_NUMBER \in Range(call.mergeFields)
    /\ ExactHeaders(CUSTOMER_PHONE_NUMBER) = {}
    /\ SubstringHeaders(CUSTOMER_PHONE_NUMBER) = {}
    /\ MOBILE_COLUMN \in Range(dataImporter.columnHeaders)

\* the token Customer Phone Number is mapped to Mobile by a variation of the
\* field type 'phone'
MappedToMobileByPhone ==
    LET best == bestColumnMatch(dataImporter.columnHeaders,
                                cleanFieldName(CUSTOMER_PHONE_NUMBER))
    IN /\ ColumnOf(CUSTOMER_PHONE_NUMBER) = Str(MOBILE_COLUMN)
       /\ best.by = "fuzzy"
       /\ best.fieldType = PHONE

\* the keywords of the Phone set
PhoneSet == { <<"p", "h", "o", "n", "e">>, <<"t", "e", "l", "e", "p", "h", "o", "n", "e">>,
              <<"c", "e", "l", "l">>, <<"m", "o", "b", "i", "l", "e">>,
              <<"c", "o", "n", "t", "a", "c", "t">> }

\* the headers that hold a keyword of the Phone set
PhoneHeaders ==
    { h \in Range(dataImporter.columnHeaders) :
        \E keyword \in PhoneSet : includes(toLowerCase(h), keyword) }

\* C15 as stated: with the token Customer Phone Number and headers of which
\* none matches it exactly or by substring and one is Mobile, reconciliation
\* maps the token to Mobile through the Phone keyword set.
C15_PhoneNumberMapsToMobile == PhoneNumberCase => MappedToMobileByPhone

\* C15, amended: as above when Mobile is the only header that holds a keyword
\* of the Phone set.
C15_PhoneNumberMapsToOnlyPhoneHeader ==
    PhoneNumberCase /\ PhoneHeaders = { MOBILE_COLUMN } => MappedToMobileByPhone

\* Customer Phone Number was mapped to Mobile, the only header of the Phone
\* set, next to a header of no category
C15_Witness ==
    /\ PhoneNumberCase
    /\ PhoneHeaders = { MOBILE_COLUMN }
    /\ Len(dataImporter.columnHeaders) > 1
    /\ MappedToMobileByPhone

\* the field types of commonMappings a token includes: its categories
CategoriesOf(token) ==
    { t \in 1..Len(commonMappings) : includes(Canonical(token), commonMappings[t].fieldType) }

\* the headers whose normalized text contains a keyword of category t
CategoryHeaders(t) ==
    { i \in 1..Len(dataImporter.columnHeaders) :
        \E v \in 1..Len(commonMappings[t].variations) :
            includes(normalized(dataImporter.columnHeaders[i]),
                     normalized(commonMappings[t].variations[v])) }

\* C16: a token with no exact and no substring match whose category is not
\* Generic is mapped to the first header, in header order, whose normalized
\* text contains any keyword of that category.
C16_FirstHeaderOfCategory ==
    ImporterMapped =>
        \A k \in 1..Len(call.mergeFields) :
            LET token == call.mergeFields[k]
                t == Min(CategoriesOf(token))
            IN /\ ExactHeaders(token) = {}
               /\ SubstringHeaders(token) = {}
               /\ CategoriesOf(token) # {}
               /\ CategoryHeaders(t) # {}
               => ColumnOf(token) = Str(dataImporter.columnHeaders[Min(CategoryHeaders(t))])

-----------------------------------------------------------------------------
(* SimpleMailBot: formatting the values of the preview (formatFieldValue,  *)
(* formatPhoneDisplay)                                                     *)

MinSerialDate == 1
MaxSerialDate == 100000
EpochSerialDate == 25569

\* the date d days after January 1 of year y, month m
RECURSIVE DateAfter(_, _, _)
DateAfter(y, m, d) ==
    IF m = 1 /\ d >= (IF IsLeapYear(y) THEN 366 ELSE 365)
    THEN DateAfter(y + 1, 1, d - (IF IsLeapYear(y) THEN 366 ELSE 365))
    ELSE IF d >= DaysInMonth(y, m) THEN DateAfter(y, m + 1, d - DaysInMonth(y, m))
    ELSE [y |-> y, m |-> m, d |-> d + 1]

\* Number(value): the number, or -1 for NaN (no value of the model is
\* negative); a number of more than six digits is kept at MaxSerialDate, the
\* bound it is compared with
ToNumber(value) ==
    IF value.t = "num" THEN value.n
    ELSE IF value.t = "str" /\ \A i \in 1..Len(value.s) : IsDigit(value.s[i])
    THEN (IF Len(value.s) <= 6 THEN StringToNat(value.s) ELSE MaxSerialDate)
    ELSE -1

\* SimpleMailBot.isDateField(fieldName)
isDateFieldName(fieldName) ==
    \E keyword \in dateKeywords : includes(toLowerCase(fieldName), keyword)

\* new Date(value) of formatFieldValue as a local date: a number is a time in
\* milliseconds since 1970 (the numbers of the model are below one day), a
\* string is parsed
NewDate(env, value) ==
    IF value.t = "num" THEN LocalDate(env, [y |-> 1970, m |-> 1, d |-> 1])
    ELSE parseDateIn(env, value.s)

\* SimpleMailBot.formatFieldValue(value, fieldName), in an environment
formatFieldValue(env, value, fieldName) ==
    LET numValue == ToNumber(value)
        serial == numValue > MinSerialDate /\ numValue < MaxSerialDate
        daysSinceEpoch == numValue - EpochSerialDate
    IN IF value = Null \/ value = Str(<<>>) THEN <<>>
       ELSE IF isDateFieldName(fieldName) /\ serial
       THEN \* 1970-01-01 is 25567 days after 1900-01-01
            formatDate(LocalDate(env, DateAfter(1900, 1, daysSinceEpoch + 25567)))
       ELSE IF isDateFieldName(fieldName) /\ ~serial /\ NewDate(env, value) # NoDate
       THEN formatDate(NewDate(env, value))
       ELSE String(value)

\* SimpleMailBot.formatPhoneDisplay(phone): the text the page shows
formatPhoneDisplay(phone) ==
    LET digits == DigitsOf(String(phone))
    IN IF ~Truthy(phone) THEN <<>>
       ELSE IF Len(digits) = 10
       THEN <<"(">> \o SubSeq(digits, 1, 3) \o <<")", " ">> \o SubSeq(digits, 4, 6)
            \o <<"-">> \o SubSeq(digits, 7, 10)
       ELSE IF Len(digits) = 11 /\ digits[1] = "1"
       THEN <<"+", "1", " ", "(">> \o SubSeq(digits, 2, 4) \o <<")", " ">>
            \o SubSeq(digits, 5, 7) \o <<"-">> \o SubSeq(digits, 8, 11)
       ELSE String(phone)

-----------------------------------------------------------------------------
(* The specification of value lookup and formatting: getCustomerValue,     *)
(* formatValue and formatPhone of MessageCustomizer, formatFieldValue and  *)
(* formatPhoneDisplay of SimpleMailBot                                     *)

MaxKeys == 2
MaxPhonePieces == 4

NAME == <<"N", "a", "m", "e">>
FULL_NAME == <<"F", "u", "l", "l", " ", "N", "a", "m", "e">>
EMAIL_COLUMN == <<"E", "m", "a", "i", "l">>
PHONE_COLUMN == <<"P", "h", "o", "n", "e">>
EXPIRATION_DATE_FIELD == <<"E", "x", "p", "i", "r", "a", "t", "i", "o", "n", " ", "D", "a", "t", "e">>
NOTES == <<"N", "o", "t", "e", "s">>

\* keys of a record; the empty key is the header `#` after cleanHeader
RecordKeys == { NAME, FULL_NAME, <<"N", "A", "M", "E">>, <<"N", "a", "m">>, cleanHeader(Str(<<"#">>)) }

\* columns a mapping names
DataColumns == { NAME, <<"n", "a", "m", "e">>, <<"F", "i", "r", "s", "t", " ", "N", "a", "m", "e">> }

\* the records of up to n keys; the value under a key tells the key
RECURSIVE RecordsOf(_)
RecordsOf(n) ==
    IF n = 0 THEN { <<>> }
    ELSE LET shorter == RecordsOf(n - 1)
         IN shorter \cup { Append(r, [k |-> key, v |-> Str(<<"v">> \o key)]) :
                              r \in shorter, key \in RecordKeys }

LookupRecords ==
    { r \in RecordsOf(MaxKeys) : \A i, j \in 1..Len(r) : i # j => r[i].k # r[j].k }

\* field names of tokens and names of columns, one of each category and one
\* of none
FieldNames == { NAME, EMAIL_COLUMN, PHONE_COLUMN, EXPIRATION_DATE_FIELD, NOTES }

\* values of a record
FieldValues ==
    { Str(<<"J", "O", "H", "N">>), Str(<<"J", "o", "h", "n", "@", "X", ".", "i", "o">>),
      Str(<<"7", "7", "2", "5", "5", "5", "1", "2", "3", "4">>), Str(<<"2", "0", "2", "3", "-", "0", "3", "-", "1", "5">>),
      Num(45000), Str(<<"4", "5", "0", "0", "0">>), Num(0) }

\* the texts of phone numbers: up to n pieces of digits and separators
PhonePieces == { <<"1">>, <<"7", "7", "2">>, <<"5", "5", "5">>, <<"1", "2", "3", "4">>,
                 <<"-">>, <<" ">>, <<"(">>, <<"x">> }

RECURSIVE PhoneTextsOf(_)
PhoneTextsOf(n) ==
    IF n = 0 THEN { <<>> }
    ELSE LET shorter == PhoneTextsOf(n - 1)
         IN shorter \cup { t \o p : t \in shorter, p \in PhonePieces }

Phones ==
    { Str(t) : t \in PhoneTextsOf(MaxPhonePieces) }
    \cup { Str(<<"7", "7", "2", "5", "5", "5", "1", "2", "3", "4">>), Str(<<"1", "7", "7", "2", "5", "5", "5", "1", "2", "3", "4">>), Str(<<"1", "2", "3", "4", "5">>), Null, Num(0) }

Called(op, args) == [op |-> op, state |-> "called"] @@ args

\* a caller is about to look a value up or to format one
InitFormat ==
    /\ messageEngine = [template |-> <<>>, fieldMapping |-> <<>>]
    /\ dataImporter = NewImporter
    /\ app = NewApp
    /\ runs = <<>>
    /\ \/ \E customerData \in LookupRecords : \E dataColumn \in DataColumns :
             call = Called("getCustomerValue",
                           [customerData |-> customerData, dataColumn |-> dataColumn])
       \/ \E env \in Environments : \E value \in FieldValues :
          \E fieldName, dataColumn \in FieldNames :
             call = Called("formatValue",
                           [env |-> env, value |-> value, fieldName |-> fieldName,
                            dataColumn |-> dataColumn])
       \/ \E env \in Environments : \E value \in FieldValues \cup {Null, Str(<<>>)} :
          \E fieldName \in FieldNames :
             call = Called("formatFieldValue",
                           [env |-> env, value |-> value,
                            fieldName |-> <<"[">> \o fieldName \o <<"]">>])
       \/ \E phone \in Phones : \E op \in {"formatPhone", "formatPhoneDisplay"} :
             call = Called(op, [phone |-> phone])

Returned(result) == [call EXCEPT !.state = "returned"] @@ [result |-> result]

GetCustomerValue ==
    /\ call.op = "getCustomerValue"
    /\ call.state = "called"
    /\ call' = Returned(getCustomerValue(call.customerData, call.dataColumn))
    /\ UNCHANGED <<messageEngine, dataImporter, app, runs>>

FormatValue ==
    /\ call.op = "formatValue"
    /\ call.state = "called"
    /\ call' = Returned(formatValue(call.value, call.fieldName, call.dataColumn))
    /\ UNCHANGED <<messageEngine, dataImporter, app, runs>>

FormatFieldValue ==
    /\ call.op = "formatFieldValue"
    /\ call.state = "called"
    /\ call' = Returned(formatFieldValue(call.env, call.value, call.fieldName))
    /\ UNCHANGED <<messageEngine, dataImporter, app, runs>>

\* formatPhone(phone): a value that is no string is returned as it is
FormatPhone ==
    /\ call.op = "formatPhone"
    /\ call.state = "called"
    /\ call' = Returned(IF IsStr(call.phone) THEN Str(formatPhone(call.phone.s))
                        ELSE call.phone)
    /\ UNCHANGED <<messageEngine, dataImporter, app, runs>>

FormatPhoneDisplay ==
    /\ call.op = "formatPhoneDisplay"
    /\ call.state = "called"
    /\ call' = Returned(Str(formatPhoneDisplay(call.phone)))
    /\ UNCHANGED <<messageEngine, dataImporter, app, runs>>

NextFormat ==
    \/ GetCustomerValue
    \/ FormatValue
    \/ FormatFieldValue
    \/ FormatPhone
    \/ FormatPhoneDisplay

SpecFormat == InitFormat /\ [][NextFormat]_vars

-----------------------------------------------------------------------------
(* Claims about value lookup and formatting *)

\* the call of op has returned
HasReturned(op) == call.op = op /\ call.state = "returned"

\* the places of the keys of the record of the call that satisfy Rule
KeysBy(Rule(_)) ==
    { i \in 1..Len(call.customerData) : Rule(call.customerData[i].k) }

\* the value under the first key that satisfies Rule
FirstBy(Rule(_)) == call.customerData[Min(KeysBy(Rule))].v

\* C17: getCustomerValue(record, column) returns the value under the key
\* exactly equal to column if the record has it; otherwise the value under the
\* first key equal to it ignoring case; otherwise the value under the first key
\* related to it by substring containment after lower-casing and whitespace
\* removal; it returns not-found (null) only when no key satisfies any rule.
C17_LookupPriority ==
    HasReturned("getCustomerValue") =>
        LET column == call.dataColumn
            Exact(key) == key = column
            NoCase(key) == toLowerCase(key) = toLowerCase(column)
            Fuzzy(key) ==
                \/ includes(StripSpaces(toLowerCase(key)), StripSpaces(toLowerCase(column)))
                \/ includes(StripSpaces(toLowerCase(column)), StripSpaces(toLowerCase(key)))
        IN call.result =
              (IF KeysBy(Exact) # {} THEN FirstBy(Exact)
               ELSE IF KeysBy(NoCase) # {} THEN FirstBy(NoCase)
               ELSE IF KeysBy(Fuzzy) # {} THEN FirstBy(Fuzzy)
               ELSE Null)

\* the semantic categories of a token or of a column: those whose keywords
\* its text holds; none is Generic
CategoriesIn(name) ==
    { c \in {"date", "name", "email", "phone"} :
        HasKeyword(CASE c = "date" -> dateKeywords
                     [] c = "name" -> nameKeywords
                     [] c = "email" -> emailKeywords
                     [] c = "phone" -> phoneKeywords, name, <<>>) }

\* the formatting of one category applied to a text
FormatAs(categories, text) ==
    IF categories = {"date"}
    THEN (IF parseDate(text) # NoDate THEN formatDate(parseDate(text)) ELSE text)
    ELSE IF categories = {"name"} THEN formatName(text)
    ELSE IF categories = {"email"} THEN toLowerCase(text)
    ELSE IF categories = {"phone"} THEN formatPhone(text)
    ELSE text

\* C18: to each substituted value the formatting of exactly one semantic
\* category is applied: that of the token when the token is not Generic,
\* otherwise that of the mapped column.  When the two categories disagree the
\* formatting of the column's category is not applied.
C18_OneCategoryFormats ==
    HasReturned("formatValue") =>
        LET ofToken == CategoriesIn(call.fieldName)
            ofColumn == CategoriesIn(call.dataColumn)
            resolved == IF ofToken # {} THEN ofToken ELSE ofColumn
        IN call.result = FormatAs(resolved, trim(String(call.value)))

MARCH_15_2023 == <<"M", "a", "r", "c", "h", " ", "1", "5", ",", " ", "2", "0", "2", "3">>

\* C19: for a date-classified field whose record value is the number 45000
\* substitution renders the long-form calendar date of day 45000 of the
\* spreadsheet serial-date convention, March 15, 2023: not the literal 45000
\* and no date got by reading 45000 as anything but a day count.
C19_SerialDateIsRendered ==
    /\ call.state = "returned"
    /\ \/ call.op = "formatValue" /\ isDateField(call.fieldName, call.dataColumn)
       \/ call.op = "formatFieldValue" /\ isDateFieldName(call.fieldName)
    /\ call.value = Num(45000)
    => call.result = MARCH_15_2023

\* C20: phone formatting strips all non-digit characters and returns
\* (AAA) BBB-CCCC when exactly 10 digits remain, +1 (AAA) BBB-CCCC when 11
\* digits remain and the first is 1, and in every other case leaves the value
\* unformatted: for the input 12345 the result is 12345.
C20_PhoneFormat ==
    (HasReturned("formatPhone") \/ HasReturned("formatPhoneDisplay")) /\ IsStr(call.phone) =>
        LET phone == call.phone.s
            digits == SelectSeq(phone, LAMBDA c : c \in Range(Digits))
            Part(from, to) == [i \in 1..(to - from + 1) |-> digits[from + i - 1]]
        IN /\ Len(digits) = 10 =>
                 call.result = Str(<<"(">> \o Part(1, 3) \o <<")", " ">> \o Part(4, 6)
                                   \o <<"-">> \o Part(7, 10))
           /\ Len(digits) = 11 /\ digits[1] = "1" =>
                 call.result = Str(<<"+", "1", " ", "(">> \o Part(2, 4) \o <<")", " ">>
                                   \o Part(5, 7) \o <<"-">> \o Part(8, 11))
           /\ Len(digits) # 10 /\ ~(Len(digits) = 11 /\ digits[1] = "1") =>
                 call.result = call.phone
           /\ phone = <<"1", "2", "3", "4", "5">> =>
                 call.result = Str(<<"1", "2", "3", "4", "5">>)

\* formatPhone has formatted 10 digits that were written with a separator
C20_Witness ==
    /\ HasReturned("formatPhone")
    /\ IsStr(call.phone)
    /\ Len(call.phone.s) > 10
    /\ call.result = Str(<<"(", "7", "7", "2", ")", " ", "5", "5", "5", "-", "1", "2", "3", "4">>)

-----------------------------------------------------------------------------
(* The specification of MessageCustomizer on phone values, names and       *)
(* templates of several merge fields                                       *)

MaxTemplatePieces == 3
MaxNamePieces == 3

FIELD_A == <<" ", "[", "a", "]", " ">>
FIELD_B == <<" ", "[", "b", "]", " ">>
PHONE_FIELD == <<" ", "[", "P", "h", "o", "n", "e", "]", " ">>
TEL_FIELD == <<" ", "[", "T", "e", "l", "]", " ">>
COLUMN_A == <<"A">>
COLUMN_B == <<"B">>
NUMBER_COLUMN == <<"N", "u", "m", "b", "e", "r">>

\* templates of up to n pieces: the merge fields [a] and [b], each with the
\* blank before and after it that mergeFieldRegex asks for, a backslash (the
\* one character the group of mergeFieldRegex stops at) and a letter
RECURSIVE TemplatesOf(_)
TemplatesOf(n) ==
    IF n = 0 THEN { <<>> }
    ELSE LET shorter == TemplatesOf(n - 1)
         IN shorter \cup { t \o p : t \in shorter, p \in {FIELD_A, FIELD_B, <<"\\">>, <<"x">>} }

\* values of the columns A and B: plain ones, one that reads as the merge
\* field [b] between two letters, one that holds the pattern $&
ValuesOfA == { Str(<<"v">>), Str(<<"q", " ", "[", "b", "]", " ", "q">>), Str(<<"$", "&">>) }
ValuesOfB == { Str(<<"w">>), Null }

\* phone cells: texts of 0, 5, 9, 10, 11, 15 and 16 digits, a formatted
\* number, a blank, and numbers as Papa Parse (dynamicTyping) and SheetJS
\* give them
PhoneCells ==
    { Str(<<>>), Str(<<" ">>), Str(<<"1", "2", "3", "4", "5">>), Str(<<"7", "7", "2", "5", "5", "5", "1", "2", "3">>), Str(<<"7", "7", "2", "5", "5", "5", "1", "2", "3", "4">>), Str(<<"1", "7", "7", "2", "5", "5", "5", "1", "2", "3", "4">>),
      Str(<<"1", "2", "3", "4", "5", "6", "7", "8", "9", "0", "1", "2", "3", "4", "5">>), Str(<<"1", "2", "3", "4", "5", "6", "7", "8", "9", "0", "1", "2", "3", "4", "5", "6">>), Str(<<"(", "7", "7", "2", ")", " ", "5", "5", "5", "-", "1", "2", "3", "4">>), Str(<<"n", "/", "a">>),
      Num(0), Num(12345), Num(2025551234), Null }

\* mappings with a phone field, found by the field's name or by the
\* column's, and one without
PhoneMappings ==
    { <<[k |-> PHONE_FIELD, v |-> PHONE_COLUMN]>>,
      <<[k |-> TEL_FIELD, v |-> NUMBER_COLUMN]>>,
      <<[k |-> FIELD_A, v |-> NUMBER_COLUMN]>>,
      <<[k |-> FIELD_A, v |-> NUMBER_COLUMN], [k |-> FIELD_B, v |-> MOBILE_COLUMN]>> }

\* names of up to n pieces
NamePieces == { <<"m", "c">>, <<"d", "o", "n", "a", "l", "d">>, <<"o", "'">>, <<"c", "o", "n", "n", "o", "r">>, <<" ">>, <<"A", "N", "N">> }

RECURSIVE NamesOf(_)
NamesOf(n) ==
    IF n = 0 THEN { <<>> }
    ELSE LET shorter == NamesOf(n - 1)
         IN shorter \cup { t \o p : t \in shorter, p \in NamePieces }

\* a caller is about to customize a template for a record, or to format a name
InitEngine ==
    /\ messageEngine = [template |-> <<>>, fieldMapping |-> <<>>]
    /\ dataImporter = NewImporter
    /\ app = NewApp
    /\ runs = <<>>
    /\ \/ \E t \in TemplatesOf(MaxTemplatePieces) \ { <<>> } :
          \E a \in ValuesOfA : \E b \in ValuesOfB :
             call = [op |-> "customizeMessage", state |-> "called",
                     args |-> [template |-> t,
                               customerData |-> Obj(<<[k |-> COLUMN_A, v |-> a],
                                                      [k |-> COLUMN_B, v |-> b]>>),
                               fieldMapping |-> Obj(<<[k |-> FIELD_A, v |-> COLUMN_A],
                                                      [k |-> FIELD_B, v |-> COLUMN_B]>>)]]
       \/ \E t \in { <<"x">>, <<"x">> \o PHONE_FIELD } :
          \E m \in PhoneMappings : \E phone \in PhoneCells :
             call = [op |-> "customizeMessage", state |-> "called",
                     args |-> [template |-> t,
                               customerData |-> Obj(<<[k |-> PHONE_COLUMN, v |-> phone],
                                                      [k |-> NUMBER_COLUMN, v |-> phone],
                                                      [k |-> MOBILE_COLUMN, v |-> phone]>>),
                               fieldMapping |-> Obj(m)]]
       \/ \E name \in NamesOf(MaxNamePieces) :
             call = Called("formatName", [name |-> Str(name)])

\* formatName(name): the empty text is returned as it is
FormatName ==
    /\ call.op = "formatName"
    /\ call.state = "called"
    /\ call' = Returned(Str(formatName(call.name.s)))
    /\ UNCHANGED <<messageEngine, dataImporter, app, runs>>

NextEngine ==
    \/ CustomizeMessage
    \/ FormatName

SpecEngine == InitEngine /\ [][NextEngine]_vars

-----------------------------------------------------------------------------
(* Claims about validation of phone values, name formatting and substitution *)

\* the first entry of the mapping of the call that is a phone field, or 0
PhoneEntry ==
    LET IsPhoneEntry(entry) == isPhoneField(entry.k, entry.v)
    IN FindIndex(call.args.fieldMapping.e, IsPhoneEntry)

\* the value the record of the call holds for the phone field
ResolvedPhone ==
    getCustomerValue(call.args.customerData.e, call.args.fieldMapping.e[PhoneEntry].v)

HasPhoneWarning ==
    \E i \in 1..Len(call.result.validation.warnings) :
        call.result.validation.warnings[i].warning = "phone"

\* the digits of a cell, a text or a number
DigitCount(value) == Len(DigitsOf(String(value)))

\* C21: validateCustomization emits a phone warning exactly when the row's
\* resolved, non-empty phone value has fewer than 10 or more than 15 digits,
\* whether the cell is a text or a number.
C21_PhoneWarningIffImplausible ==
    Customized =>
        (HasPhoneWarning <=>
            /\ PhoneEntry # 0
            /\ ResolvedPhone # Null
            /\ String(ResolvedPhone) # <<>>
            /\ (DigitCount(ResolvedPhone) < MinPhoneDigits
                \/ DigitCount(ResolvedPhone) > MaxPhoneDigits))

\* the place i of a name starts a word: it is the first, or follows a blank
StartsWord(name, i) == i = 1 \/ name[i - 1] = " "

\* the place i of a name follows a leading mc, or an o and an apostrophe
FollowsParticle(name, i) ==
    LET lower == toLowerCase(name)
    IN /\ i > 2
       /\ \/ lower[i - 2] = "m" /\ lower[i - 1] = "c" /\ StartsWord(name, i - 2)
          \/ lower[i - 2] = "o" /\ lower[i - 1] = "'"

\* C22: name formatting lower-cases the value, capitalises the first letter
\* of each space-separated word, and the letter after a leading Mc and the
\* letter after O' are upper-case in the result.
C22_NameParticles ==
    HasReturned("formatName") =>
        LET name == call.name.s
            result == call.result.s
        IN /\ Len(result) = Len(name)
           /\ \A i \in 1..Len(name) :
                 result[i] = IF StartsWord(name, i) \/ FollowsParticle(name, i)
                             THEN UpperChar(LowerChar(name[i]))
                             ELSE LowerChar(name[i])

\* the replacement, among those of the result, whose merge field is the
\* longest one that stands at place i of the template, or 0
FieldAt(template, replacements, i) ==
    LET here == { k \in 1..Len(replacements) : StartsAt(template, replacements[k].field, i) }
    IN IF here = {} THEN 0
       ELSE CHOOSE k \in here :
               \A j \in here : Len(replacements[j].field) <= Len(replacements[k].field)

\* one pass over the template from place i on: each occurrence of a merge
\* field gives way to the field's value, every other character is kept
RECURSIVE SinglePass(_, _, _)
SinglePass(template, replacements, i) ==
    IF i > Len(template) THEN <<>>
    ELSE LET k == FieldAt(template, replacements, i)
         IN IF k = 0 THEN <<template[i]>> \o SinglePass(template, replacements, i + 1)
            ELSE replacements[k].replacedValue
                 \o SinglePass(template, replacements, i + Len(replacements[k].field))

\* C23: substitution replaces every occurrence of each unique token's literal
\* text by the token's formatted value in a single pass over the template:
\* the text inserted for a token is in the message as it is.
C23_SinglePassSubstitution ==
    Customized =>
        call.result.message
            = SinglePass(call.args.template, call.result.replacements, 1)

-----------------------------------------------------------------------------
(* MessageCustomizer.batchCustomize *)

YieldEvery == 50            \* batchCustomize: i % 50 === 0

\* customizeMessage that leaves this.template and this.fieldMapping as they were
notStored(engine, template, fieldMapping) == engine

\* this.template = template; this.fieldMapping = fieldMapping
stored(engine, template, fieldMapping) ==
    [template |-> template, fieldMapping |-> fieldMapping.e]

\* this after customizeMessage: template and mapping are stored once the
\* three arguments have passed the checks
thisAfter(engine, template, customerData, fieldMapping) ==
    IF template = <<>> \/ customerData = Null \/ fieldMapping = Null THEN engine
    ELSE stored(engine, template, fieldMapping)

\* the result of customizeMessage as a method of the instance engine:
\* validateCustomization reads this.fieldMapping
customizeMessageOn(engine, template, customerData, fieldMapping) ==
    IF template = <<>> \/ customerData = Null \/ fieldMapping = Null
    THEN customizeMessage(template, customerData, fieldMapping)
    ELSE LET this == thisAfter(engine, template, customerData, fieldMapping)
             result == replaceFields(template, customerData.e, fieldMapping.e)
             validation == validateCustomization(result.message, customerData.e,
                                                 this.fieldMapping)
         IN [success |-> TRUE, error |-> "", message |-> result.message,
             replacements |-> result.replacements, validation |-> validation]

\* batchCustomize called with i, counting from 1, in place of i + 1
progressIndex(i) == i

\* progressCallback(i + 1, total, result): the first argument
progressCount(i) == i + 1

\* a loop that normalizes the texts of customers[i] in place before it
\* customizes the record
normalizedCustomerAt(customers, i) ==
    LET customer == customers[i + 1]
    IN Obj([j \in 1..Len(customer.e) |->
               [k |-> customer.e[j].k,
                v |-> IF IsStr(customer.e[j].v) THEN Str(toLowerCase(customer.e[j].v.s))
                      ELSE customer.e[j].v]])

\* const customer = customers[i], i from 0
customerAt(customers, i) == customers[i + 1]

\* The loop of batchCustomize goes on from row i without a break up to the
\* row it awaits after (i % 50 === 0 && i > 0) or up to the last row:
\* nothing else runs in between.
nextYield(i) ==
    IF i % YieldEvery = 0 /\ i > 0 THEN i ELSE (i \div YieldEvery + 1) * YieldEvery

lastRow(run, i) == Min({Len(run.customers) - 1, nextYield(i)})

\* this after the loop has done the rows from i to k: each row calls
\* customizeMessage with the template and the mapping of the run, so that
\* this is what the call for row k leaves
thisAfterRow(engine, run, i, k) ==
    IF k < i THEN engine
    ELSE thisAfter(engine, run.template, customerAt(run.customers, k), run.fieldMapping)

\* the result pushed for row k: customerIndex and customerData are added
batchResult(engine, run, i, k) ==
    customizeMessageOn(thisAfterRow(engine, run, i, k - 1), run.template,
                       customerAt(run.customers, k), run.fieldMapping)
    @@ [customerIndex |-> k, customerData |-> customerAt(run.customers, k)]

\* the run after the loop has gone on from row i to its next await or its return
batchLoop(engine, run, i) ==
    LET last == lastRow(run, i)
    IN IF i >= Len(run.customers) THEN [run EXCEPT !.pc = "done"]
       ELSE [run EXCEPT
               !.results = @ \o [j \in 1..(last - i + 1) |->
                                   batchResult(engine, run, i, i + j - 1)],
               !.progress = @ \o [j \in 1..(last - i + 1) |->
                                    [count |-> progressCount(i + j - 1),
                                     total |-> Len(run.customers)]],
               !.i = last + 1,
               !.pc = IF last % YieldEvery = 0 /\ last > 0 THEN "await" ELSE "done"]

\* this after that
thisAfterLoop(engine, run, i) == thisAfterRow(engine, run, i, lastRow(run, i))

-----------------------------------------------------------------------------
(* The specification of batchCustomize: runs on one MessageCustomizer that *)
(* interleave at their awaits                                              *)

MaxBatches == 2
MaxCustomers == 101

\* the lengths of the lists: no row, a list that ends on the row the first
\* await follows, and the longest one
BatchSizes == { 0, YieldEvery + 1, MaxCustomers }

\* row i of a list: its place, and a phone number that is valid in every
\* second row
BatchRow(i) ==
    Obj(<<[k |-> COLUMN_A, v |-> Str(NatToString(i))],
          [k |-> PHONE_COLUMN, v |-> Str(IF i % 2 = 0 THEN <<"1", "2", "3", "4", "5">> ELSE <<"7", "7", "2", "5", "5", "5", "1", "2", "3", "4">>)]>>)

CustomersOf(n) == [i \in 1..n |-> BatchRow(i)]

\* a template and a mapping of its field: one with no phone field, one
\* whose field is a phone field by its column
BatchJobs ==
    { [template |-> <<"x">> \o FIELD_A,
       fieldMapping |-> Obj(<<[k |-> FIELD_A, v |-> COLUMN_A]>>)],
      [template |-> FIELD_B,
       fieldMapping |-> Obj(<<[k |-> FIELD_B, v |-> PHONE_COLUMN]>>)] }

InitBatch ==
    /\ messageEngine = [template |-> <<>>, fieldMapping |-> <<>>]
    /\ dataImporter = NewImporter
    /\ app = NewApp
    /\ runs = <<>>
    /\ call = [op |-> "batchCustomize", state |-> "called"]

\* a caller calls batchCustomize: the run goes on to its first await or its return
BatchCustomize(job, n) ==
    /\ Len(runs) < MaxBatches
    /\ LET run == [pc |-> "running", i |-> 0, template |-> job.template,
                   customers |-> CustomersOf(n), fieldMapping |-> job.fieldMapping,
                   results |-> <<>>, progress |-> <<>>]
       IN /\ runs' = Append(runs, batchLoop(messageEngine, run, 0))
          /\ messageEngine' = thisAfterLoop(messageEngine, run, 0)
    /\ UNCHANGED <<dataImporter, app, call>>

\* the timer of an await fires: the run goes on to its next await or its return
TimerFires(r) ==
    /\ r \in 1..Len(runs)
    /\ runs[r].pc = "await"
    /\ runs' = [runs EXCEPT ![r] = batchLoop(messageEngine, runs[r], runs[r].i)]
    /\ messageEngine' = thisAfterLoop(messageEngine, runs[r], runs[r].i)
    /\ UNCHANGED <<dataImporter, app, call>>

NextBatch ==
    \/ \E job \in BatchJobs : \E n \in BatchSizes : BatchCustomize(job, n)
    \/ \E r \in 1..MaxBatches : TimerFires(r)

SpecBatch == InitBatch /\ [][NextBatch]_vars

-----------------------------------------------------------------------------
(* Claims about batchCustomize *)

\* the k-th result of a run is what customizeMessage returns for the k-th
\* customer, the template and the mapping of the run when it is called
\* alone, on a new MessageCustomizer
IsCustomizationOf(run, k) ==
    LET alone == customizeMessage(run.template, run.customers[k], run.fieldMapping)
    IN /\ run.results[k].success = alone.success
       /\ run.results[k].message = alone.message
       /\ run.results[k].replacements = alone.replacements
       /\ run.results[k].validation = alone.validation

\* the number of results run r had before a step
ResultsBefore(r) == IF r \in 1..Len(runs) THEN Len(runs[r].results) ELSE 0

\* run r is at an await before a step and its timer fires in the step
Resumes(r) ==
    /\ r \in 1..Len(runs)
    /\ runs[r].pc = "await"
    /\ runs'[r] # runs[r]

\* a run has been at an await while a run of another job was at work
Interleaved(r) ==
    \E q \in 1..Len(runs) :
        /\ q # r
        /\ runs[q].results # <<>>
        /\ runs[r].i > YieldEvery
        /\ runs[q].template # runs[r].template

\* C25: rows of a batch are independent: when two batchCustomize runs with
\* different templates and mappings on one MessageCustomizer interleave at
\* their awaits, every row's message and validation report equal what
\* customizeMessage returns for that row, template and mapping run alone
\* (stated for the rows each step of a run adds).
C25_RowsAreIndependent ==
    [][\A r \in 1..Len(runs') :
          \A k \in (ResultsBefore(r) + 1)..Len(runs'[r].results) :
              IsCustomizationOf(runs'[r], k)]_vars

\* two runs of different jobs took turns and both have returned
C25_Witness ==
    /\ Len(runs) = 2
    /\ runs[1].pc = "done" /\ runs[2].pc = "done"
    /\ Interleaved(1) /\ Interleaved(2)
    /\ Len(runs[1].results) = MaxCustomers
    /\ messageEngine.template = runs[1].template

\* the results and the progress calls of a run that has returned
Resolved(run) ==
    LET n == Len(run.customers)
    IN /\ run.pc = "done"
       /\ Len(run.results) = n
       /\ \A k \in 1..n :
             /\ run.results[k].customerIndex = k - 1
             /\ run.results[k].customerData = run.customers[k]
             /\ IsCustomizationOf(run, k)
       /\ Len(run.progress) = n
       /\ \A k \in 1..n : run.progress[k].count = k /\ run.progress[k].total = n

\* run r returns in a step
Returns(r) ==
    /\ r \in 1..Len(runs')
    /\ runs'[r].pc = "done"
    /\ r \in 1..Len(runs) => runs[r].pc # "done"

\* C26: for a list of N customers batchCustomize resolves, given that timers
\* fire, with exactly N results in input order, result i with customerIndex
\* i and the customization of customers[i], and it calls the progress
\* callback once per row with the counts 1, 2, ..., N; where it yields
\* changes no result.  That it resolves is stated step by step: a run that
\* has not returned waits for a timer and for nothing else, and each timer
\* that fires takes it to a later row or to its return, so that a run of N
\* rows returns after at most N \div YieldEvery timers.
C26_BatchResolves ==
    [][\A r \in 1..MaxBatches :
          /\ Returns(r) => Resolved(runs'[r])
          /\ r \in 1..Len(runs') =>
                /\ runs'[r].pc \in {"await", "done"}
                /\ runs'[r].i <= Len(runs'[r].customers)
                /\ runs'[r].pc = "await" => runs'[r].i > YieldEvery
          /\ Resumes(r) =>
                \/ runs'[r].pc = "done"
                \/ runs'[r].i >= runs[r].i + YieldEvery]_vars

\* a run of the longest list has returned after it yielded twice
C26_Witness ==
    \E r \in 1..Len(runs) :
        /\ runs[r].pc = "done"
        /\ Len(runs[r].results) = MaxCustomers
        /\ MaxCustomers > 2 * YieldEvery
        /\ runs[r].progress[MaxCustomers].count = MaxCustomers

-----------------------------------------------------------------------------
(* SimpleMailBot: the mapping modal and the review of the customers *)

\* customer[column]: undefined (Null) without such a key
Lookup(customer, column) == IF HasKey(customer, column) THEN Get(customer, column) ELSE Null

\* the words of /\s*(x|ext\.?|extension)\s*\d+$/i
ExtensionWords == { <<"x">>, <<"e", "x", "t">>, <<"e", "x", "t", ".">>,
                    <<"e", "x", "t", "e", "n", "s", "i", "o", "n">> }

\* /\s*(x|ext\.?|extension)\s*\d+$/i matches the whole of the text t
IsExtension(t) ==
    LET rest == TrimStart(t)
    IN \E word \in ExtensionWords :
          /\ Len(rest) > Len(word)
          /\ toLowerCase(SubSeq(rest, 1, Len(word))) = word
          /\ LET number == TrimStart(Slice(rest, Len(word) + 1))
             IN number # <<>> /\ \A i \in 1..Len(number) : IsDigit(number[i])

\* text.replace(/\s*(x|ext\.?|extension)\s*\d+$/i, ''): the leftmost match,
\* which reaches the end of the text, is taken away
StripExtension(text) ==
    LET starts == { i \in 1..Len(text) : IsExtension(Slice(text, i)) }
    IN IF starts = {} THEN text ELSE SubSeq(text, 1, Min(starts) - 1)

\* SimpleMailBot.formatPhoneForSms(phone)
formatPhoneForSms(phone) ==
    LET cleaned == StripExtension(String(phone))
        digits == DigitsOf(cleaned)
    IN IF ~Truthy(phone) THEN <<>>
       ELSE IF Len(digits) = 10 THEN <<"+", "1">> \o digits
       ELSE IF Len(digits) = 11 /\ digits[1] = "1" THEN <<"+">> \o digits
       ELSE digits

\* the texts of the links and of the preview
SMS == <<"s", "m", "s", ":">>
BODY == <<"?", "b", "o", "d", "y", "=">>
RINGCENTRAL == <<"h", "t", "t", "p", "s", ":", "/", "/", "a", "p", "p", ".", "r", "i", "n", "g", "c", "e", "n", "t", "r", "a", "l", ".", "c", "o", "m", "/", "m", "e", "s", "s", "a", "g", "e", "s", "/", "c", "o", "m", "p", "o", "s", "e", "?", "t", "o", "=">>
TEXT == <<"&", "t", "e", "x", "t", "=">>
MAILTO == <<"m", "a", "i", "l", "t", "o", ":">>
SUBJECT == <<"?", "s", "u", "b", "j", "e", "c", "t", "=">>
BODY_PARAM == <<"&", "b", "o", "d", "y", "=">>
DEFAULT_SUBJECT == <<"I", "m", "p", "o", "r", "t", "a", "n", "t", " ", "m", "e", "s", "s", "a", "g", "e", " ", "r", "e", "g", "a", "r", "d", "i", "n", "g", " ", "y", "o", "u", "r", " ", "M", "e", "m", "b", "e", "r", "s", "h", "i", "p">>
DIV_OPEN == <<"<", "d", "i", "v", " ", "s", "t", "y", "l", "e", "=", "\"", "f", "o", "n", "t", "-", "f", "a", "m", "i", "l", "y", ":", " ", "A", "r", "i", "a", "l", ",", " ", "s", "a", "n", "s", "-", "s", "e", "r", "i", "f", ";", " ", "l", "i", "n", "e", "-", "h", "e", "i", "g", "h", "t", ":", " ", "1", ".", "6", ";", "\"", ">">>
DIV_CLOSE == <<"<", "/", "d", "i", "v", ">">>
NO_EMAIL == <<"N", "o", " ", "e", "m", "a", "i", "l">>

\* SimpleMailBot.stripHtmlTags(html): the text content of the markup (the
\* markup of the model has no character reference)
RECURSIVE stripHtmlTagsFrom(_, _)
stripHtmlTagsFrom(html, i) ==
    LET closes == { j \in (i + 1)..Len(html) : html[j] = ">" }
    IN IF i > Len(html) THEN <<>>
       ELSE IF html[i] = "<" /\ i < Len(html) /\ (IsWordChar(html[i + 1]) \/ html[i + 1] = "/")
               /\ closes # {}
       THEN stripHtmlTagsFrom(html, Min(closes) + 1)
       ELSE <<html[i]>> \o stripHtmlTagsFrom(html, i + 1)

stripHtmlTags(html) == stripHtmlTagsFrom(html, 1)

\* encodeURIComponent(text): letters, digits and - _ . ! ~ * ' ( ) stay, any
\* other character of the model becomes its percent code
PercentCodes ==
    (" " :> <<"%", "2", "0">>)
    @@ ("[" :> <<"%", "5", "B">>)
    @@ ("]" :> <<"%", "5", "D">>)
    @@ ("<" :> <<"%", "3", "C">>)
    @@ (">" :> <<"%", "3", "E">>)
    @@ ("@" :> <<"%", "4", "0">>)
    @@ ("+" :> <<"%", "2", "B">>)
    @@ ("$" :> <<"%", "2", "4">>)
    @@ ("&" :> <<"%", "2", "6">>)
    @@ (":" :> <<"%", "3", "A">>)
    @@ ("/" :> <<"%", "2", "F">>)
    @@ ("?" :> <<"%", "3", "F">>)
    @@ ("=" :> <<"%", "3", "D">>)
    @@ ("," :> <<"%", "2", "C">>)
    @@ ("#" :> <<"%", "2", "3">>)
    @@ ("%" :> <<"%", "2", "5">>)
    @@ (";" :> <<"%", "3", "B">>)
    @@ ("{" :> <<"%", "7", "B">>)
    @@ ("}" :> <<"%", "7", "D">>)
    @@ ("|" :> <<"%", "7", "C">>)
    @@ ("^" :> <<"%", "5", "E">>)

RECURSIVE encodeURIComponent(_)
encodeURIComponent(text) ==
    IF text = <<>> THEN <<>>
    ELSE (IF Head(text) \in DOMAIN PercentCodes THEN PercentCodes[Head(text)]
          ELSE <<Head(text)>>)
         \o encodeURIComponent(Tail(text))

\* SimpleMailBot.generateSmsLink(phone, message)
generateSmsLink(phone, message) ==
    SMS \o formatPhoneForSms(phone) \o BODY
    \o encodeURIComponent(stripHtmlTags(message))

\* SimpleMailBot.generateRingCentralLink(phone, message)
generateRingCentralLink(phone, message) ==
    RINGCENTRAL \o formatPhoneForSms(phone) \o TEXT
    \o encodeURIComponent(stripHtmlTags(message))

\* a link of the page: its href and whether it has the class 'disabled'
Link(href, disabled) == [href |-> href, disabled |-> disabled]
NoLink == Link(<<"#">>, TRUE)

\* the mailto link of renderCurrentCustomer and updateEmailLinks (the subject
\* input is left as the page loads it, so the subject is the default one)
MailtoLink(toField, body) ==
    Link(MAILTO \o encodeURIComponent(toField) \o SUBJECT
         \o encodeURIComponent(DEFAULT_SUBJECT) \o BODY_PARAM \o encodeURIComponent(body), FALSE)

\* the loop of renderCurrentCustomer over the entries of this.fieldMapping,
\* from entry k on: every occurrence of the field is replaced by the value
RECURSIVE customizedHtml(_, _, _, _, _)
customizedHtml(env, html, customer, fieldMapping, k) ==
    IF k > Len(fieldMapping) THEN html
    ELSE LET field == fieldMapping[k].k
             rawValue == Lookup(customer, fieldMapping[k].v)
             value == formatFieldValue(env, rawValue, field)
         IN customizedHtml(env, ReplaceAll(html, escapeRegex(field), value), customer,
                       fieldMapping, k + 1)

\* Object.keys(this.fieldMapping).find(f => f.toLowerCase().includes('name')),
\* and the value of its column, '' without one
customerNameOf(a, customer) ==
    LET fields == Keys(a.fieldMapping)
        k == FindIndex(fields, LAMBDA f : includes(toLowerCase(f), <<"n", "a", "m", "e">>))
    IN IF k = 0 \/ a.fieldMapping[k].v = <<>> THEN Str(<<>>)
       ELSE Lookup(customer, a.fieldMapping[k].v)

\* the elements of the review section that renderCurrentCustomer writes, as
\* the page loads them
NewReview ==
    [reviewSectionHTML |-> "review", emailPreviewEl |-> <<>>, smsPreviewEl |-> <<>>,
     customerEmailEl |-> <<>>, desktopBtn |-> Link(<<"#">>, FALSE),
     smsMessagesBtn |-> Link(<<"#">>, FALSE), smsRingCentralBtn |-> Link(<<"#">>, FALSE),
     prevBtn |-> [disabled |-> FALSE], nextBtn |-> [disabled |-> FALSE],
     customerIndexEl |-> <<>>]

\* a new SimpleMailBot and its review section
NewReviewApp == NewApp @@ NewReview

\* hasValidPhone of renderCurrentCustomer
hasValidPhone(customerPhone) ==
    Truthy(customerPhone) /\ Len(formatPhoneForSms(customerPhone)) >= MinPhoneDigits

\* customerEmail.includes('@') throws a TypeError when the cell is a number
emailIncludesThrows(customerEmail) == Truthy(customerEmail) /\ ~IsStr(customerEmail)

\* the fields and the page after renderCurrentCustomer()
renderCurrentCustomer(env, a) ==
    IF a.currentIndex < 0 \/ a.currentIndex >= Len(a.customers)
    THEN [a EXCEPT !.reviewSectionHTML = "No more customers."]
    ELSE LET customer == a.customers[a.currentIndex + 1]
             customerEmail == IF a.emailColumn # <<>> THEN Lookup(customer, a.emailColumn)
                              ELSE Str(<<>>)
             customerPhone == IF a.phoneColumn # <<>> THEN Lookup(customer, a.phoneColumn)
                              ELSE Str(<<>>)
             emailTemplateSource == IF a.template # <<>> THEN a.template ELSE a.smsTemplate
             smsTemplateSource == IF a.smsTemplate # <<>> THEN a.smsTemplate ELSE a.template
             customizedEmailHtml == customizedHtml(env, emailTemplateSource, customer, a.fieldMapping, 1)
             customizedSmsHtml == customizedHtml(env, smsTemplateSource, customer, a.fieldMapping, 1)
             emailWithFont == DIV_OPEN \o customizedEmailHtml \o DIV_CLOSE
             b == [a EXCEPT !.emailPreviewEl = emailWithFont,
                            !.smsPreviewEl = stripHtmlTags(customizedSmsHtml),
                            !.customerEmailEl = IF Truthy(customerEmail) THEN String(customerEmail)
                                                ELSE NO_EMAIL]
             customerName == customerNameOf(a, customer)
             toField == IF Truthy(customerName) /\ Truthy(customerEmail)
                        THEN String(customerName) \o <<" ", "<">> \o String(customerEmail) \o <<">">>
                        ELSE String(customerEmail)
             hasValidEmail == Truthy(customerEmail) /\ includes(customerEmail.s, <<"@">>)
         IN IF emailIncludesThrows(customerEmail) THEN b
            ELSE [b EXCEPT
                    !.desktopBtn = IF hasValidEmail
                                   THEN MailtoLink(toField, stripHtmlTags(emailWithFont))
                                   ELSE NoLink,
                    !.smsMessagesBtn =
                        IF hasValidPhone(customerPhone)
                        THEN Link(generateSmsLink(customerPhone, customizedSmsHtml), FALSE)
                        ELSE NoLink,
                    !.smsRingCentralBtn =
                        IF hasValidPhone(customerPhone)
                        THEN Link(generateRingCentralLink(customerPhone, customizedSmsHtml), FALSE)
                        ELSE NoLink,
                    !.prevBtn = [disabled |-> a.currentIndex = 0],
                    !.nextBtn = [disabled |-> a.currentIndex >= Len(a.customers) - 1],
                    !.customerIndexEl = NatToString(a.currentIndex + 1) \o <<" ", "o", "f", " ">>
                                        \o NatToString(Len(a.customers))]

\* renderCurrentCustomer ends in a TypeError
renderThrows(a) ==
    /\ a.currentIndex >= 0 /\ a.currentIndex < Len(a.customers)
    /\ a.emailColumn # <<>>
    /\ emailIncludesThrows(Lookup(a.customers[a.currentIndex + 1], a.emailColumn))

\* the fields and the page after updateEmailLinks(), called where
\* renderCurrentCustomer has returned
updateEmailLinks(a) ==
    IF a.currentIndex < 0 \/ a.currentIndex >= Len(a.customers) THEN a
    ELSE LET customer == a.customers[a.currentIndex + 1]
             customerEmail == IF a.emailColumn # <<>> THEN Lookup(customer, a.emailColumn)
                              ELSE Str(<<>>)
             customerName == customerNameOf(a, customer)
             toField == IF Truthy(customerName)
                        THEN String(customerName) \o <<" ", "<">> \o String(customerEmail) \o <<">">>
                        ELSE String(customerEmail)
         IN IF ~(Truthy(customerEmail) /\ includes(customerEmail.s, <<"@">>)) THEN a
            ELSE [a EXCEPT !.desktopBtn = MailtoLink(toField, stripHtmlTags(a.emailPreviewEl))]

\* the copy of the selects of the mapping container into this.fieldMapping
RECURSIVE copySelects(_, _, _)
copySelects(fieldMapping, selects, k) ==
    IF k > Len(selects) THEN fieldMapping
    ELSE copySelects(SetKey(fieldMapping, selects[k].k, selects[k].v), selects, k + 1)

\* the fields and the page after finalizeMapping()
finalizeMapping(env, a) ==
    LET b == [a EXCEPT !.emailColumn = a.emailColumnSelect,
                       !.phoneColumn = a.phoneColumnSelect]
        c == [b EXCEPT !.fieldMapping = copySelects(b.fieldMapping, b.mappingSelects, 1)]
        d == [c EXCEPT !.mappingModal = "none", !.reviewSection = "block"]
    IN IF b.emailColumn = <<>> THEN b
       ELSE IF \E k \in 1..Len(c.fieldMapping) : c.fieldMapping[k].v = <<>> THEN c
       ELSE renderCurrentCustomer(env, d)

\* the fields and the page after navigate(direction)
navigate(env, a, direction) ==
    LET newIndex == a.currentIndex + direction
        b == [a EXCEPT !.currentIndex = newIndex]
    IN IF newIndex >= 0 /\ newIndex < Len(a.customers)
       THEN (IF renderThrows(b) THEN renderCurrentCustomer(env, b)
             ELSE updateEmailLinks(renderCurrentCustomer(env, b)))
       ELSE a

-----------------------------------------------------------------------------
(* The specification of the review: files are selected, startProcessing    *)
(* runs, the user chooses columns in the mapping modal, confirms the       *)
(* mapping and clicks Previous, Next and Skip                              *)

PHONE_X12 == <<"(", "7", "7", "2", ")", " ", "5", "5", "5", "-", "1", "2", "3", "4", " ", "x", "1", "2">>
PHONE_16 == <<"+", "1", "2", "3", "4", " ", "5", "6", "7", "8", " ", "9", "0", "1", "2", " ", "3", "4", "5", "6">>

ReviewTemplateFiles == { TemplateFile(HtmlA, "ok") }

A_COLUMN == <<"a">>
MAIL_COLUMN == <<"M", "a", "i", "l">>
CELL_COLUMN == <<"C", "e", "l", "l">>

\* A list of two customers with a column of each kind: a phone number with
\* an extension, and a phone number of sixteen digits.
ReviewTableA ==
    << <<Str(A_COLUMN), Str(EMAIL_COLUMN), Str(PHONE_COLUMN)>>,
       <<Str(<<"v">>), Str(<<"a", "@", "b">>), Str(PHONE_X12)>>,
       <<Str(<<"x">>), Str(<<"c", "@", "d">>), Str(PHONE_16)>> >>

\* a list of one customer, with a phone number of five digits and without a
\* column named as an e-mail column
ReviewTableB ==
    << <<Str(A_COLUMN), Str(MAIL_COLUMN), Str(CELL_COLUMN)>>,
       <<Str(<<"z">>), Str(<<"f", "@", "g">>), Str(<<"1", "2", "3", "4", "5">>)>> >>

ReviewDataFiles ==
    { CsvFile(TRUE, "complete", ReviewTableA), CsvFile(TRUE, "complete", ReviewTableB),
      CsvFile(TRUE, "error", <<>>) }

ReviewEnvironments == { env \in Environments : env.dateParser = "strict" /\ env.timeZone = "east" }

InitReview ==
    /\ messageEngine = [template |-> <<>>, fieldMapping |-> <<>>]
    /\ dataImporter = NewImporter
    /\ app = NewReviewApp
    /\ runs = <<>>
    /\ \E env \in ReviewEnvironments : call = [op |-> "review", env |-> env]

\* the options of the selects of the mapping modal
ColumnOptions == {<<>>} \cup Range(HeadersOf(app.customers))

\* the user chooses an option of the e-mail select
SelectEmailColumn(column) ==
    /\ column \in ColumnOptions
    /\ app' = [app EXCEPT !.emailColumnSelect = column]
    /\ UNCHANGED <<messageEngine, dataImporter, runs, call>>

\* the user chooses an option of the phone select
SelectPhoneColumn(column) ==
    /\ column \in ColumnOptions
    /\ app' = [app EXCEPT !.phoneColumnSelect = column]
    /\ UNCHANGED <<messageEngine, dataImporter, runs, call>>

\* the user chooses an option of the select of merge field k
SelectFieldColumn(k, column) ==
    /\ column \in ColumnOptions
    /\ k \in 1..Len(app.mappingSelects)
    /\ app' = [app EXCEPT !.mappingSelects[k].v = column]
    /\ UNCHANGED <<messageEngine, dataImporter, runs, call>>

\* the user clicks the confirm button of the mapping modal
FinalizeMapping ==
    /\ app' = finalizeMapping(call.env, app)
    /\ UNCHANGED <<messageEngine, dataImporter, runs, call>>

\* the user clicks Previous (-1), Next or Skip (1)
Navigate(direction) ==
    /\ app' = navigate(call.env, app, direction)
    /\ UNCHANGED <<messageEngine, dataImporter, runs, call>>

\* the options the user chooses among: no column, and the columns of the
\* lists of the model that hold the values of the kind
EmailColumns == {<<>>, MAIL_COLUMN}
PhoneColumns == {<<>>}
FieldColumns == {<<>>, A_COLUMN}

NextReview ==
    \/ \E file \in ReviewTemplateFiles : ProcessFile(file, "template")
    \/ \E file \in ReviewDataFiles : ProcessFile(file, "data")
    \/ \E r \in 1..Len(runs) : ArrayBufferRead(r)
    \/ \E r \in 1..Len(runs) : Converted(r)
    \/ \E r \in 1..Len(runs) : ImportReturned(r)
    \/ \E column \in EmailColumns : SelectEmailColumn(column)
    \/ \E column \in PhoneColumns : SelectPhoneColumn(column)
    \/ \E k \in 1..Len(app.mappingSelects) :
          \E column \in FieldColumns : SelectFieldColumn(k, column)
    \/ FinalizeMapping
    \/ \E direction \in {-1, 1} : Navigate(direction)

SpecReview == InitReview /\ [][NextReview]_vars

-----------------------------------------------------------------------------
(* Claims about the review *)

\* the index is one of a customer of the list
InRange(index) == index >= 0 /\ index < Len(app.customers)

\* the e-mail select holds a column and so does the select of every merge field
MappingComplete ==
    /\ app.emailColumnSelect # <<>>
    /\ \A k \in 1..Len(app.mappingSelects) : app.mappingSelects[k].v # <<>>

\* the step is a confirmation of a complete mapping
Accepted == FinalizeMapping /\ MappingComplete

\* the step is a click on Previous, Next or Skip that stays within the list
Moved == \E direction \in {-1, 1} : Navigate(direction) /\ InRange(app.currentIndex + direction)

\* the step writes the customer at currentIndex into the page
Rendered == (Accepted /\ InRange(app.currentIndex)) \/ Moved

\* the elements of the page that show a customer
PageOf(a) == [f \in DOMAIN NewReview |-> a[f]]

\* the phone value of the customer at currentIndex after the step
ShownPhone ==
    IF app'.phoneColumn = <<>> THEN Str(<<>>)
    ELSE Lookup(app'.customers[app'.currentIndex + 1], app'.phoneColumn)

\* the digits of a phone value without its formatting and its extension
PhoneDigitCount(value) ==
    IF value = Null THEN 0 ELSE Len(DigitsOf(StripExtension(String(value))))

SmsLinksDisabled(a) == a.smsMessagesBtn = NoLink /\ a.smsRingCentralBtn = NoLink
SmsLinksEnabled(a) ==
    /\ ~a.smsMessagesBtn.disabled /\ a.smsMessagesBtn.href # <<"#">>
    /\ ~a.smsRingCentralBtn.disabled /\ a.smsRingCentralBtn.href # <<"#">>

\* C27: whenever a customer is rendered, the two SMS links are disabled with
\* the href '#' unless the phone value of the customer, without formatting
\* and extension, has 10 to 15 digits.
C27_SmsLinksNeedPlausiblePhone ==
    [][Rendered =>
          \/ PhoneDigitCount(ShownPhone) \in MinPhoneDigits..MaxPhoneDigits
          \/ SmsLinksDisabled(app')]_vars

\* C28: the review section is shown only by a confirmation that found the
\* e-mail column selected and every merge field mapped; a confirmation that
\* finds either missing leaves the modal, the review section and the page as
\* they are; and no customer is rendered into a shown review section while
\* the mapping modal is open.
C28_ReviewOnlyAfterFinalizedMapping ==
    [][/\ (app.reviewSection # "block" /\ app'.reviewSection = "block") => Accepted
       /\ (FinalizeMapping /\ ~MappingComplete) =>
             /\ app'.mappingModal = app.mappingModal
             /\ app'.reviewSection = app.reviewSection
             /\ PageOf(app') = PageOf(app)
       /\ (Rendered /\ app'.reviewSection = "block") => app'.mappingModal = "none"]_vars

\* the review section is shown with a customer in it
ShowsCustomer(a) ==
    a.reviewSection = "block" /\ a.reviewSectionHTML = "review" /\ a.customerIndexEl # <<>>

\* C29: whenever the review section shows a customer, currentIndex is the
\* index of a customer of the list; and a click on Previous, Next or Skip
\* that would leave the list changes neither currentIndex nor the page.
C29_IndexWithinCustomers ==
    [][/\ ShowsCustomer(app') =>
             app'.currentIndex >= 0 /\ app'.currentIndex < Len(app'.customers)
       /\ \A direction \in {-1, 1} :
             (Navigate(direction) /\ ~InRange(app.currentIndex + direction)) => app' = app]_vars

-----------------------------------------------------------------------------
(* The specification of the operations on imported records: the mapping is *)
(* confirmed, the customers are reviewed, and the records of the page are  *)
(* customized in batches                                                  *)

\* a list of two customers: texts, a number and an empty cell
RecordsTable ==
    << <<Str(A_COLUMN), Str(EMAIL_COLUMN), Str(PHONE_COLUMN)>>,
       <<Str(<<"V">>), Str(<<"A", "@", "b">>), Str(PHONE_X12)>>,
       <<Num(5), Str(<<"c", "@", "d">>), Null>> >>

RecordFiles == { CsvFile(TRUE, "complete", RecordsTable), CsvFile(TRUE, "complete", ReviewTableB) }

\* the fields and the page when startProcessing has shown the mapping modal
\* for a template file and a data file
afterProcessing(templateFile, dataFile) ==
    LET selected == [NewReviewApp EXCEPT !.templateFile = templateFile,
                                         !.templateFileLoaded = TRUE,
                                         !.dataFile = dataFile, !.dataFileLoaded = TRUE]
        started == startProcessing(selected).app
        converted == AfterEmailTemplate(
                         [started EXCEPT !.template = templateFile.html,
                                         !.emailMergeFields = ExtractMergeFields(templateFile.html)]).app
        data == importFile(dataFile).data
    IN displayMappingModal([converted EXCEPT !.customers = data,
                                             !.fieldMapping = autoMapFields(converted.mergeFields, data)])

\* the customers argument of batchCustomize for the records of the page
customersOf(a) == [i \in 1..Len(a.customers) |-> Obj(a.customers[i])]

InitRecords ==
    /\ messageEngine = [template |-> <<>>, fieldMapping |-> <<>>]
    /\ \E dataFile \in RecordFiles :
          /\ app = afterProcessing(TemplateFile(HtmlA, "ok"), dataFile)
          /\ dataImporter = [rawData |-> rawDataOf(dataFile),
                             processedData |-> importFile(dataFile).data,
                             columnHeaders |-> importFile(dataFile).headers]
    /\ runs = <<>>
    /\ \E env \in ReviewEnvironments : call = [op |-> "review", env |-> env]

\* batchCustomize(template, this.customers, fieldMapping, progressCallback) on
\* the engine of the page; a list of the model is shorter than the rows
\* between two yields, so the call returns without an await
BatchCustomizeRecords(job) ==
    /\ Len(runs) < MaxBatches
    /\ LET run == [pc |-> "running", i |-> 0, template |-> job.template,
                   customers |-> customersOf(app), fieldMapping |-> job.fieldMapping,
                   results |-> <<>>, progress |-> <<>>]
       IN /\ runs' = Append(runs, batchLoop(messageEngine, run, 0))
          /\ messageEngine' = thisAfterLoop(messageEngine, run, 0)
    /\ UNCHANGED <<dataImporter, app, call>>

NextRecords ==
    \/ \E k \in 1..Len(app.mappingSelects) :
          \E column \in FieldColumns : SelectFieldColumn(k, column)
    \/ FinalizeMapping
    \/ \E direction \in {-1, 1} : Navigate(direction)
    \/ \E job \in BatchJobs : BatchCustomizeRecords(job)

SpecRecords == InitRecords /\ [][NextRecords]_vars

-----------------------------------------------------------------------------
(* Claims about the imported records *)

\* the records as importFile returned them for the data file of the page
ImportedRecords == importFile(app.dataFile).data

\* result k of a run is about record k as imported, and its message is the
\* message replaceFields made of the template and that record
IsOfImportedRecord(run, k) ==
    /\ run.results[k].customerData = Obj(ImportedRecords[k])
    /\ run.results[k].message =
           replaceFields(run.template, ImportedRecords[k], run.fieldMapping.e).message

\* C24: whatever the confirmations, navigation clicks and batch
\* customizations since the import, the records of the page, of the importer
\* and of every batch are the records as imported, key by key and value by
\* value, and every result carries the message that replaceFields made,
\* unchanged by its validation.
C24_RecordsAreNeverChanged ==
    /\ app.customers = ImportedRecords
    /\ dataImporter.processedData = ImportedRecords
    /\ \A r \in 1..Len(runs) :
          /\ runs[r].customers = [i \in 1..Len(ImportedRecords) |-> Obj(ImportedRecords[i])]
          /\ Len(runs[r].results) = Len(ImportedRecords)
          /\ \A k \in 1..Len(runs[r].results) : IsOfImportedRecord(runs[r], k)

\* two customers have been rendered in turn and two batches of different jobs
\* have run over the records
C24_Witness ==
    /\ app.reviewSection = "block"
    /\ app.currentIndex = 1
    /\ app.customerIndexEl = <<"2", " ", "o", "f", " ", "2">>
    /\ Len(runs) = 2
    /\ runs[1].template # runs[2].template
    /\ Len(runs[2].results) = 2

-----------------------------------------------------------------------------
(* utils.js: retry with exponential backoff *)

DefaultMaxAttempts == 3       \* retry(fn, maxAttempts = 3, baseDelay = 1000)
DefaultBaseDelay == 1000

\* 2 to the power n (Math.pow(2, n)) for the small n of the model
RECURSIVE Pow2(_)
Pow2(n) == IF n = 0 THEN 1 ELSE 2 * Pow2(n - 1)

\* a delay that grows by baseDelay with every attempt
linearDelay(baseDelay, attempt) == baseDelay * attempt

\* const delay = baseDelay * Math.pow(2, attempt - 1)
delay(baseDelay, attempt) == baseDelay * Pow2(attempt - 1)

\* a parameter, or its default when the argument is undefined
OrDefault(argument, default) == IF argument = Null THEN default ELSE argument.n

\* The loop of retry from the head of an iteration on, up to its next await
\* or its end: with attempts left it calls fn and awaits it, without it
\* leaves the loop and throws lastError.  fn is called for the attempt-th
\* time; its calls are counted.
loopHead(c) ==
    IF c.attempt <= c.maxAttempts
    THEN [c EXCEPT !.pc = "fn", !.calls = @ + 1]
    ELSE [c EXCEPT !.pc = "thrown", !.error = c.lastError]

MaxAttempts == 4
BaseDelays == {0, 1, 250, DefaultBaseDelay}

\* A caller calls retry(fn, maxAttempts, baseDelay), with or without the
\* optional arguments.  Call k of fn, when it fails, fails with error k, and
\* when it succeeds, returns value k.
InitRetry ==
    /\ messageEngine = [template |-> <<>>, fieldMapping |-> <<>>]
    /\ dataImporter = NewImporter
    /\ app = NewApp
    /\ runs = <<>>
    /\ \E maxAttempts \in {Null} \cup { Num(n) : n \in 0..MaxAttempts },
          baseDelay \in {Null} \cup { Num(n) : n \in BaseDelays } :
          call = [op |-> "retry", pc |-> "called",
                  maxAttempts |-> OrDefault(maxAttempts, DefaultMaxAttempts),
                  baseDelay |-> OrDefault(baseDelay, DefaultBaseDelay),
                  attempt |-> 0, calls |-> 0, outcomes |-> <<>>, sleeps |-> <<>>,
                  lastError |-> Null, error |-> Null, value |-> Null]

\* retry starts: let lastError, the first iteration
Retry ==
    /\ call.pc = "called"
    /\ call' = loopHead([call EXCEPT !.attempt = 1])
    /\ UNCHANGED <<messageEngine, dataImporter, app, runs>>

\* fn returns a value, or a promise that is fulfilled: return await fn()
FnSucceeds ==
    /\ call.pc = "fn"
    /\ call' = [call EXCEPT !.pc = "returned", !.value = Num(call.calls),
                            !.outcomes = Append(@, "fulfilled")]
    /\ UNCHANGED <<messageEngine, dataImporter, app, runs>>

\* fn throws, or its promise is rejected: the catch of retry
FnFails ==
    /\ call.pc = "fn"
    /\ LET caught == [call EXCEPT !.lastError = Num(call.calls),
                                  !.outcomes = Append(@, "rejected")]
       IN call' = IF caught.attempt = caught.maxAttempts
                  THEN [caught EXCEPT !.pc = "thrown", !.error = caught.lastError]
                  ELSE [caught EXCEPT !.pc = "sleep",
                                      !.sleeps = Append(@, delay(caught.baseDelay, caught.attempt))]
    /\ UNCHANGED <<messageEngine, dataImporter, app, runs>>

\* the timer of sleep fires: attempt++, the next iteration
SleepEnds ==
    /\ call.pc = "sleep"
    /\ call' = loopHead([call EXCEPT !.attempt = @ + 1])
    /\ UNCHANGED <<messageEngine, dataImporter, app, runs>>

NextRetry == Retry \/ FnSucceeds \/ FnFails \/ SleepEnds

SpecRetry == InitRetry /\ [][NextRetry]_vars

-----------------------------------------------------------------------------
(* Claims about retry *)

\* the calls of fn before call k have all failed
AllFailedBefore(c, k) == \A j \in 1..(k - 1) : c.outcomes[j] = "rejected"

\* the wait after failed attempt k is baseDelay * 2^(k-1) ms
DoublingWaits(c) ==
    \A k \in 1..Len(c.sleeps) : c.sleeps[k] = c.baseDelay * (2 ^ (k - 1))

\* C30: retry calls fn at most maxAttempts times and never after a success;
\* it returns the value of the first successful call, or throws the error of
\* the last attempt after maxAttempts failures; it has waited
\* baseDelay * 2^(k-1) ms after failed attempt k, once between every two
\* attempts and not after the last one.
C30_RetryBacksOff ==
    call.op = "retry" =>
        /\ call.calls <= call.maxAttempts
        /\ Len(call.outcomes) \in {call.calls - 1, call.calls}
        /\ AllFailedBefore(call, Len(call.outcomes))
        /\ DoublingWaits(call)
        /\ call.pc = "fn" => Len(call.sleeps) = call.calls - 1
        /\ call.pc = "sleep" => Len(call.sleeps) = call.calls /\ call.calls < call.maxAttempts
        /\ call.pc = "returned" =>
              /\ call.outcomes[call.calls] = "fulfilled"
              /\ call.value = Num(call.calls)
              /\ Len(call.sleeps) = call.calls - 1
        /\ call.pc = "thrown" =>
              /\ call.calls = call.maxAttempts
              /\ Len(call.outcomes) = call.maxAttempts
              /\ AllFailedBefore(call, call.maxAttempts + 1)
              /\ call.maxAttempts > 0 => call.error = Num(call.maxAttempts)
              /\ call.maxAttempts > 0 => Len(call.sleeps) = call.maxAttempts - 1

\* retry has thrown after four failed attempts or more, having waited one,
\* two and four seconds after the first three
C30_Witness ==
    /\ call.op = "retry"
    /\ call.pc = "thrown"
    /\ call.maxAttempts >= 4
    /\ call.error = Num(call.maxAttempts)
    /\ SubSeq(call.sleeps, 1, 3) = <<DefaultBaseDelay, 2 * DefaultBaseDelay, 4 * DefaultBaseDelay>>

=============================================================================
